---------------------------- MODULE Spec2Model ----------------------------
(***************************************************************************)
(* A model of the drime backend: the retry classification (shouldRetry),   *)
(* the path resolver and its cache (Fs.findEntry, Fs.addDirCacheEntry),    *)
(* the mutation operations (Fs.Mkdir, Fs.Rmdir, Fs.Purge, Fs.Move,         *)
(* Fs.DirMove, Object.Remove) of the dirCache version of drime.go, and the *)
(* same operations of the two-table (pathCache / entryCache) version.      *)
(*                                                                         *)
(* Paths are modelled as sequences of segments: strings.Split(p, "/") of   *)
(* the Go string; path.Join is concatenation, path.Dir drops the last      *)
(* segment and path.Base is the last segment.                              *)
(***************************************************************************)
EXTENDS Integers, Sequences, FiniteSets, TLC

VARIABLES
    remote,      \* the service's live entries (set of FileEntry records)
    nextId,      \* the next id the service assigns
    failBudget,  \* how many more remote calls may fail in this behaviour
    root,        \* Fs.root, as a sequence of segments
    dirCache,    \* Fs.dirCache: path -> FileEntry
    mkdirCache,  \* Fs.mkdirCache: path -> state of its sync.Once
    stack,       \* per caller: the call stack of frames, innermost first
    ret,         \* per caller: the value returned by the last finished call
    opsLeft,     \* how many more operations the callers may start
    hist,        \* observations of the run (counters and records for the properties)
    pathCache,   \* two-table version: Fs.pathCache, path -> id
    entryCache,  \* two-table version: Fs.entryCache, id -> FileEntry
    last2,       \* two-table version: the last operation and its result
    pacer,       \* one pacer.Call in progress: its attempts and outcome
    lister,      \* one apiClient.listEntries call in progress, and the pages it is served
    others,      \* how many more changes other clients of the account may make
    dirCacheMu,  \* Fs.dirCacheMu (sync.RWMutex): the callers holding it
    dl           \* one apiClient.download call: the entry's URL and the URL requested

fsVars == <<remote, nextId, failBudget, root, dirCache, mkdirCache, stack, ret, opsLeft, hist>>
v2Vars == <<pathCache, entryCache, last2>>
vars == <<remote, nextId, failBudget, root, dirCache, mkdirCache, stack, ret, opsLeft, hist,
          pathCache, entryCache, last2, pacer, lister, others, dirCacheMu, dl>>

\* drime.go 61: dirCacheMu sync.RWMutex; w is the caller holding it for
\* writing (0 when none), r the callers holding it for reading
NoLocks == [w |-> 0, r |-> {}]

\* no download call
DlIdle == [state |-> "idle", url |-> <<>>, out |-> <<>>]

---------------------------------------------------------------------------
(* Bounds of the model *)

\* concurrent callers
NProcs == 2
\* operations the concurrent callers may start in one behaviour, all together
MaxOps == 2
\* operations the single caller of the sequential specification may start
MaxSeqOps == 3
\* remote calls that may fail in one behaviour
MaxFail == 1
\* attempts one pacer.Call makes at most (the pacer's retry limit)
MaxTries == 3
\* changes other clients of the account make in one behaviour
MaxOthers == 1
\* pages a listing is split into at most
MaxPages == 3
\* items on one page at most
MaxPageLen == 2

---------------------------------------------------------------------------
(* 4.1 Retry classification: api.go shouldRetry *)

\* An error value: 0 is nil, TransportErr a failure without a response, and
\* a status code the error the REST client builds for that response.
TransportErr == -1

Statuses == {200, 401, 403, 404, 422, 429, 500, 503}

\* The outcomes of one attempt, (resp, err) as rest.Client.CallJSON returns
\* them: no response and a transport error, a 2xx response and no error, or
\* a non-2xx response together with the error built from it.  resp = 0 is a
\* nil response.
Outcomes ==
    {[resp |-> 0, err |-> TransportErr]}
    \cup {[resp |-> s, err |-> IF s \in 200..299 THEN 0 ELSE s] : s \in Statuses}

\* shouldRetry(ctx, resp, err), mutated: an error is never retried
shouldRetryErrFinal(ctxErr, resp, err) ==
    IF err # 0
    THEN [retry |-> FALSE, err |-> err]
    ELSE IF resp # 0 /\ (resp = 429 \/ resp >= 500)
         THEN [retry |-> TRUE, err |-> err]
         ELSE [retry |-> FALSE, err |-> err]

\* shouldRetry(ctx, resp, err), mutated: the context is not consulted
shouldRetryNoCtx(ctxErr, resp, err) ==
    IF err # 0
    THEN [retry |-> TRUE, err |-> err]
    ELSE IF resp # 0 /\ (resp = 429 \/ resp >= 500)
         THEN [retry |-> TRUE, err |-> err]
         ELSE [retry |-> FALSE, err |-> err]

\* shouldRetry(ctx, resp, err): ctxErr is ctx.Err() != nil
shouldRetry(ctxErr, resp, err) ==
    IF err # 0
    THEN IF ctxErr
         THEN [retry |-> FALSE, err |-> err]
         ELSE [retry |-> TRUE, err |-> err]
    ELSE IF resp # 0 /\ (resp = 429 \/ resp >= 500)
         THEN [retry |-> TRUE, err |-> err]
         ELSE IF resp # 0 /\ resp \in {401, 403, 404, 422}
              THEN [retry |-> FALSE, err |-> err]
              ELSE [retry |-> FALSE, err |-> err]

\* The closure createFolder hands to the pacer, mutated: no exception for 422
createFolderRetryPlain(ctxErr, resp, err) == shouldRetry(ctxErr, resp, err)

\* The closure createFolder hands to the pacer: a 422 is returned without
\* asking shouldRetry.
createFolderRetry(ctxErr, resp, err) ==
    IF resp # 0 /\ resp = 422
    THEN [retry |-> FALSE, err |-> err]
    ELSE shouldRetry(ctxErr, resp, err)

\* The closure of the call kind k
Classify(k, ctxErr, resp, err) ==
    IF k = "createFolder"
    THEN createFolderRetry(ctxErr, resp, err)
    ELSE shouldRetry(ctxErr, resp, err)

CallKinds == {"std", "createFolder"}

PacerIdle == [state |-> "idle", kind |-> "std", ctx |-> FALSE, log |-> <<>>, err |-> 0]

\* pacer.Call begins: no attempt made yet
PacerStart ==
    /\ pacer.state # "busy"
    /\ \E k \in CallKinds :
         pacer' = [state |-> "busy", kind |-> k, ctx |-> FALSE, log |-> <<>>, err |-> 0]
    /\ UNCHANGED <<fsVars, v2Vars, lister, others, dirCacheMu, dl>>

\* The caller's context is cancelled (or its deadline passes)
PacerCancel ==
    /\ pacer.state = "busy"
    /\ ~pacer.ctx
    /\ pacer' = [pacer EXCEPT !.ctx = TRUE]
    /\ UNCHANGED <<fsVars, v2Vars, lister, others, dirCacheMu, dl>>

\* One attempt of the paced call: the request is made, its outcome is
\* classified, and the pacer loop either goes round again or returns err.
\* An attempt begun under a cancelled context fails without a response; the
\* context may also be cancelled while the attempt is in flight (cancelNow).
PacerAttempt ==
    /\ pacer.state = "busy"
    /\ \E o \in Outcomes, cancelNow \in BOOLEAN :
         /\ pacer.ctx => (o.resp = 0 /\ ~cancelNow)
         /\ LET ctxErr == pacer.ctx \/ cancelNow
                c == Classify(pacer.kind, ctxErr, o.resp, o.err)
                n == Len(pacer.log) + 1
            IN pacer' = [pacer EXCEPT
                           !.ctx = ctxErr,
                           !.log = Append(@, [resp |-> o.resp, err |-> o.err,
                                              ctx |-> ctxErr, retry |-> c.retry]),
                           !.err = c.err,
                           !.state = IF c.retry /\ n < MaxTries THEN "busy" ELSE "done"]
    /\ UNCHANGED <<fsVars, v2Vars, lister, others, dirCacheMu, dl>>

---------------------------------------------------------------------------
(* Pagination: apiClient.listEntries, api.go 141-185 and part_000 142-186 *)

ListerIdle == [state |-> "idle", ver |-> "api", sizes |-> <<>>, page |-> 0,
               allEntries |-> <<>>, reqs |-> <<>>]

ListVersions == {"api", "part_000"}

RECURSIVE SumTo(_, _)
SumTo(sizes, n) == IF n = 0 THEN 0 ELSE sizes[n] + SumTo(sizes, n - 1)

\* The service's answer to GET /drive/file-entries?page=p for a listing
\* split into Len(sizes) pages: the items are numbered 1, 2, ... in listing
\* order, current_page is the page asked for, and a page past the last one
\* is empty.
PageResponse(sizes, p) ==
    [data |-> IF p <= Len(sizes)
              THEN [k \in 1..sizes[p] |-> SumTo(sizes, p - 1) + k]
              ELSE <<>>,
     currentPage |-> p,
     lastPage |-> Len(sizes)]

\* api.go line 179, mutated: > for >=
LastPageReachedLate(page, resp) == resp.currentPage > resp.lastPage

\* api.go line 179: resp.CurrentPage >= resp.LastPage
LastPageReached(page, resp) == resp.currentPage >= resp.lastPage

\* part_000 line 180: page >= resp.LastPage
LastPageReached0(page, resp) == page >= resp.lastPage

\* listEntries is called on a folder whose listing the service splits into pages
ListStart ==
    /\ lister.state # "busy"
    /\ \E v \in ListVersions, n \in 1..MaxPages :
         \E sizes \in [1..n -> 0..MaxPageLen] :
             lister' = [state |-> "busy", ver |-> v, sizes |-> sizes, page |-> 1,
                        allEntries |-> <<>>, reqs |-> <<>>]
    /\ UNCHANGED <<fsVars, v2Vars, pacer, others, dirCacheMu, dl>>

\* One round of the loop: the request for the page, the append, and the
\* test for the last page
ListPage ==
    /\ lister.state = "busy"
    /\ LET resp == PageResponse(lister.sizes, lister.page)
           stop == IF lister.ver = "api"
                   THEN LastPageReached(lister.page, resp)
                   ELSE LastPageReached0(lister.page, resp)
       IN lister' = [lister EXCEPT
                       !.reqs = Append(@, lister.page),
                       !.allEntries = @ \o resp.data,
                       !.state = IF stop THEN "done" ELSE "busy",
                       !.page = IF stop THEN @ ELSE @ + 1]
    /\ UNCHANGED <<fsVars, v2Vars, pacer, others, dirCacheMu, dl>>

\* The paced request for the page returns an error: listEntries returns
\* nil and the error
ListPageFails ==
    /\ lister.state = "busy"
    /\ lister' = [lister EXCEPT !.reqs = Append(@, lister.page),
                                !.allEntries = <<>>, !.state = "failed"]
    /\ UNCHANGED <<fsVars, v2Vars, pacer, others, dirCacheMu, dl>>

---------------------------------------------------------------------------
(* Paths and entries *)

\* the callers (goroutines) sharing one Fs
Procs == 1..NProcs

\* api.go FileEntry: parent = 0 stands for a nil ParentID (a child of the
\* account root)
NoEntry == [id |-> -1, name |-> "", type |-> "none", parent |-> 0]

\* findEntry's synthetic root: &FileEntry{ID: 0, Type: "folder", Name: ""}
RootEntry == [id |-> 0, name |-> "", type |-> "folder", parent |-> 0]

\* path.Join of two clean paths
Join(a, b) == a \o b

\* path.Dir; the "." and "" results are both the empty sequence
Dir(p) == IF Len(p) <= 1 THEN <<>> ELSE SubSeq(p, 1, Len(p) - 1)

\* path.Base of a non-empty path
Base(p) == p[Len(p)]

\* strings.Join(parts[:i], "/")
Prefix(p, i) == SubSeq(p, 1, i)

\* strings.TrimPrefix(p, f.root + "/"): the prefix is cut only when p holds
\* the root's segments followed by at least one more segment
TrimRootPrefix(rt, p) ==
    IF rt # <<>> /\ Len(p) > Len(rt) /\ SubSeq(p, 1, Len(rt)) = rt
    THEN SubSeq(p, Len(rt) + 1, Len(p))
    ELSE p

\* a map with key k set to v, and with key k removed
Put(f, k, v) == [x \in DOMAIN f \cup {k} |-> IF x = k THEN v ELSE f[x]]
Drop(f, k) == [x \in DOMAIN f \ {k} |-> f[x]]
Get(f, k, d) == IF k \in DOMAIN f THEN f[k] ELSE d
EmptyMap == [x \in {} |-> 0]

---------------------------------------------------------------------------
(* The remote service, as the Entry Client's requests see it *)

\* the entries of S as a sequence in ascending id order (the listing order)
RECURSIVE SeqById(_)
SeqById(S) ==
    IF S = {} THEN <<>>
    ELSE LET m == CHOOSE e \in S : \A o \in S : e.id <= o.id
         IN <<m>> \o SeqById(S \ {m})

\* GET /drive/file-entries, all pages: the children of parentID (0 or nil:
\* the account root)
ListEntries(rem, parentID) == SeqById({e \in rem : e.parent = parentID})

IsLiveFolder(rem, id) == id = 0 \/ \E e \in rem : e.id = id /\ e.type = "folder"

\* id and everything below it
RECURSIVE Subtree(_, _)
Subtree(rem, ids) ==
    LET more == {e.id : e \in {x \in rem : x.parent \in ids}} \ ids
    IN IF more = {} THEN ids ELSE Subtree(rem, ids \cup more)

NameTaken(rem, parentID, name, selfId) ==
    \E e \in rem : e.parent = parentID /\ e.name = name /\ e.id # selfId

\* POST /folders: refused (422) when the name is taken in the parent
CanCreate(rem, name, parentID) ==
    IsLiveFolder(rem, parentID) /\ ~NameTaken(rem, parentID, name, -1)
NewFolder(nid, name, parentID) ==
    [id |-> nid, name |-> name, type |-> "folder", parent |-> parentID]

\* POST /file-entries/delete: the entry and its subtree go
CanDelete(rem, id) == \E e \in rem : e.id = id
AfterDelete(rem, id) == {e \in rem : e.id \notin Subtree(rem, {id})}

\* POST /file-entries/move
CanMove(rem, id, dest) ==
    /\ \E e \in rem : e.id = id /\ ~NameTaken(rem, dest, e.name, id)
    /\ IsLiveFolder(rem, dest)
    /\ dest \notin Subtree(rem, {id})
AfterMove(rem, id, dest) ==
    {IF e.id = id THEN [e EXCEPT !.parent = dest] ELSE e : e \in rem}

\* PUT /file-entries/{id}
CanRename(rem, id, name) ==
    \E e \in rem : e.id = id /\ ~NameTaken(rem, e.parent, name, id)
AfterRename(rem, id, name) ==
    {IF e.id = id THEN [e EXCEPT !.name = name] ELSE e : e \in rem}

\* the path of entry e from the account root
RECURSIVE PathOf(_, _)
PathOf(rem, e) ==
    IF e.parent = 0 THEN <<e.name>>
    ELSE IF \E q \in rem : q.id = e.parent
         THEN PathOf(rem, CHOOSE q \in rem : q.id = e.parent) \o <<e.name>>
         ELSE <<"?", e.name>>

\* the entries found at path p by walking the remote tree from the root
AtPath(rem, p) == {e \in rem : PathOf(rem, e) = p}

---------------------------------------------------------------------------
(* 4.3 Path resolver and cache: drime.go, dirCache version *)

\* addDirCacheEntry(absPath, entry): only folders are stored; mutated, any
\* entry is stored
addDirCacheEntryAny(cache, absPath, entry) == Put(cache, absPath, entry)

\* addDirCacheEntry(absPath, entry)
addDirCacheEntry(cache, absPath, entry) ==
    IF entry.type # "folder" THEN cache ELSE Put(cache, absPath, entry)

\* lines 239-241, mutated: the missing prefix is remembered as missing
notFoundRemembered(cache, currentPath) == Put(cache, currentPath, NoEntry)

\* lines 239-241: if !found { return nil, fs.ErrorObjectNotFound }; the cache
\* is left as it is
notFound(cache, currentPath) == cache

\* the scan of a listing, mutated: no break, the last entry of that name stays
RECURSIVE LastNamed(_, _)
LastNamed(ents, part) ==
    IF ents = <<>> THEN NoEntry
    ELSE IF ents[Len(ents)].name = part THEN ents[Len(ents)]
    ELSE LastNamed(SubSeq(ents, 1, Len(ents) - 1), part)

\* the scan of a listing for the segment: the first entry of that name
RECURSIVE FirstNamed(_, _)
FirstNamed(ents, part) ==
    IF ents = <<>> THEN NoEntry
    ELSE IF Head(ents).name = part THEN Head(ents)
    ELSE FirstNamed(Tail(ents), part)

Result(err, entry) == [err |-> err, entry |-> entry]

---------------------------------------------------------------------------
(* Callers: each runs one operation at a time as a stack of frames.  A frame
   is one activation of a function of drime.go; pc is the place it has
   reached, at the granularity of its accesses to the cache (one lock
   acquisition) and to the remote service (one request). *)

Frame(fn, pc, path) ==
    [fn |-> fn, pc |-> pc, path |-> path, path2 |-> <<>>, i |-> 0, cur |-> 0,
     ent |-> NoEntry, ents |-> <<>>, err |-> "", n |-> 0]

NoEv == [op |-> "none", path |-> <<>>, path2 |-> <<>>, err |-> "", id |-> -1, n |-> 0,
         ents |-> <<>>, proc |-> 0, moved |-> FALSE, cause |-> ""]

Top(p) == Head(stack[p])
Rest(p) == Tail(stack[p])

\* the caller moves on inside its current function
Goto(p, f) == stack' = [stack EXCEPT ![p] = <<f>> \o Rest(p)]

\* the current function (now at f) calls another one
CallFn(p, f, callee) == stack' = [stack EXCEPT ![p] = <<callee, f>> \o Rest(p)]

\* what an operation that returns r to the user is observed as
\* (f is the frame of the function as it returns; cause is the error of a
\* callee that the function had in hand)
EvOfF(p, r, f) ==
    IF Len(stack[p]) = 1
    THEN [op |-> f.fn, path |-> f.path, path2 |-> f.path2, err |-> r.err,
          id |-> r.entry.id, n |-> f.n, ents |-> f.ents, proc |-> p, moved |-> FALSE,
          cause |-> f.err]
    ELSE NoEv

EvOf(p, r) == EvOfF(p, r, Top(p))

\* What a Move or DirMove has done so far: the entry as the service held it
\* just before moveEntries succeeded, the parent it was moved to, the number
\* of renameEntry requests made, and whether one of them failed.
NoMv == [old |-> NoEntry, dest |-> -1, renames |-> 0, failed |-> FALSE]

TheEntry(rem, id) == CHOOSE e \in rem : e.id = id

NoMon == [stage |-> 0, path |-> <<>>, child |-> -1]

\* The observer of "Rmdir refused, the only child was removed, Rmdir again":
\* stage 1 after an Rmdir of path that saw exactly one child and returned
\* DirNotEmpty, stage 2 when the very next operation deleted that child,
\* stage 3 when the operation after that is Rmdir of the same path.
MonNext(mon, ev) ==
    IF ev.op = "none" THEN mon
    ELSE IF ev.op = "Rmdir" /\ ev.err = "DirNotEmpty" /\ Len(ev.ents) = 1
         THEN [stage |-> 1, path |-> ev.path, child |-> ev.ents[1].id]
         ELSE IF mon.stage = 1 /\ ev.op \in {"Remove", "Rmdir"} /\ ev.err = ""
                 /\ ev.id = mon.child
              THEN [mon EXCEPT !.stage = 2]
              ELSE IF mon.stage = 2 /\ ev.op = "Rmdir" /\ ev.path = mon.path
                   THEN [mon EXCEPT !.stage = 3]
                   ELSE NoMon

\* the function, left in frame f, returns r; h is hist with this step's other updates
ReturnF(p, r, f, h) ==
    /\ stack' = [stack EXCEPT ![p] = Rest(p)]
    /\ ret' = [ret EXCEPT ![p] = r]
    /\ hist' = [h EXCEPT !.ev = EvOfF(p, r, f), !.mon = MonNext(@, EvOfF(p, r, f))]

ReturnH(p, r, h) == ReturnF(p, r, Top(p), h)

Return(p, r) == ReturnH(p, r, hist)

Quiet == hist' = [hist EXCEPT !.ev = NoEv]

At(p, fn, pc) == stack[p] # <<>> /\ Top(p).fn = fn /\ Top(p).pc = pc

Inc(f, k) == Put(f, k, Get(f, k, 0) + 1)

\* a remote request fails (after the pacer gave up, or terminally)
Fails == failBudget > 0 /\ failBudget' = failBudget - 1

(* ---- findEntry, drime.go 181-245 ---- *)

FindFrame(path) == Frame("findEntry", "check", path)

\* lines 182-194: the empty path, then the cache check of the whole path
FeCheck(p) ==
    /\ At(p, "findEntry", "check")
    /\ LET f == Top(p) IN
         IF f.path = <<>>
         THEN Return(p, Result("", RootEntry))
         ELSE IF f.path \in DOMAIN dirCache
              THEN Return(p, Result("", dirCache[f.path]))
              ELSE Goto(p, [f EXCEPT !.pc = "walk", !.i = 1, !.cur = 0]) /\ Quiet /\ UNCHANGED ret
    /\ UNCHANGED <<remote, nextId, failBudget, root, dirCache, mkdirCache, opsLeft, v2Vars, pacer, lister, others, dirCacheMu, dl>>

\* what the walk did for one segment: seg is its index, list tells a
\* listEntries call from a cache hit, parent is the parent passed to
\* listEntries, id the id the walk went on with
Visit(seg, list, parent, id) == [seg |-> seg, list |-> list, parent |-> parent, id |-> id]

\* lines 203-205, mutated: the cache is not looked at
prefixCachedNever(cache, currentPath) == FALSE

\* lines 203-205: cachedEntry, ok := f.dirCache[currentPath]
prefixCached(cache, currentPath) == currentPath \in DOMAIN cache

\* lines 201-210: the cache check of the prefix ending at segment i; on a hit
\* the loop continues with the next segment, and past the last segment the
\* function ends at line 244.  ents is the list of the visits of this call.
FeWalk(p) ==
    /\ At(p, "findEntry", "walk")
    /\ LET f == Top(p)
           currentPath == Prefix(f.path, f.i)
           g == [f EXCEPT !.ents = Append(@, Visit(f.i, FALSE, -1, dirCache[currentPath].id))]
       IN IF prefixCached(dirCache, currentPath)
          THEN IF f.i = Len(f.path)
               THEN ReturnF(p, Result("NotFound", NoEntry), g, hist)
               ELSE Goto(p, [g EXCEPT !.i = f.i + 1, !.cur = dirCache[currentPath].id])
                    /\ Quiet /\ UNCHANGED ret
          ELSE Goto(p, [f EXCEPT !.pc = "list"]) /\ Quiet /\ UNCHANGED ret
    /\ UNCHANGED <<remote, nextId, failBudget, root, dirCache, mkdirCache, opsLeft, v2Vars, pacer, lister, others, dirCacheMu, dl>>

\* lines 212-241 but for the cache write: the listing of the parent and the
\* scan for the segment; n counts the listEntries calls of this findEntry
FeList(p) ==
    /\ At(p, "findEntry", "list")
    /\ LET f == Top(p)
           parentID == IF f.i = 1 THEN 0 ELSE f.cur
           e == FirstNamed(ListEntries(remote, parentID), f.path[f.i])
           g == [f EXCEPT !.n = f.n + 1,
                          !.ents = Append(@, Visit(f.i, TRUE, parentID, e.id))]
           gf == [g EXCEPT !.ents = Append(f.ents, Visit(f.i, TRUE, parentID, -1))]
       IN \/ /\ Fails
             /\ ReturnF(p, Result("ListFailed", NoEntry), gf, hist)
             /\ UNCHANGED dirCache
          \/ /\ UNCHANGED failBudget
             /\ IF e = NoEntry
                THEN /\ ReturnF(p, Result("NotFound", NoEntry), g, hist)
                     /\ dirCache' = notFound(dirCache, Prefix(f.path, f.i))
                ELSE /\ UNCHANGED dirCache
                     /\ IF e.type = "folder"
                        THEN Goto(p, [g EXCEPT !.pc = "add", !.ent = e]) /\ Quiet /\ UNCHANGED ret
                        ELSE IF f.i = Len(f.path)
                             THEN ReturnF(p, Result("", e), g, hist)
                             ELSE Goto(p, [g EXCEPT !.pc = "walk", !.i = f.i + 1, !.cur = e.id])
                                  /\ Quiet /\ UNCHANGED ret
    /\ UNCHANGED <<remote, nextId, root, mkdirCache, opsLeft, v2Vars, pacer, lister, others, dirCacheMu, dl>>

\* lines 226-233: the folder found is cached, and returned or descended into
FeAdd(p) ==
    /\ At(p, "findEntry", "add")
    /\ LET f == Top(p) IN
         /\ dirCache' = addDirCacheEntry(dirCache, Prefix(f.path, f.i), f.ent)
         /\ IF f.i = Len(f.path)
            THEN Return(p, Result("", f.ent))
            ELSE Goto(p, [f EXCEPT !.pc = "walk", !.i = f.i + 1, !.cur = f.ent.id, !.ent = NoEntry])
                 /\ Quiet /\ UNCHANGED ret
    /\ UNCHANGED <<remote, nextId, failBudget, root, mkdirCache, opsLeft, v2Vars, pacer, lister, others, dirCacheMu, dl>>

(* ---- apiClient.createFolder, api.go 254-306 ---- *)

\* lines 255-264: the listing of the parent; an existing folder is returned
CfPrecheck(p) ==
    /\ At(p, "createFolder", "precheck")
    /\ LET f == Top(p)
           ents == ListEntries(remote, f.cur)
           e == FirstNamed(SelectSeq(ents, LAMBDA x : x.type = "folder"), Base(f.path))
       IN \/ /\ Fails
             /\ Goto(p, [f EXCEPT !.pc = "post"]) /\ Quiet /\ UNCHANGED ret
          \/ /\ UNCHANGED failBudget
             /\ IF e # NoEntry
                THEN Return(p, Result("", e))
                ELSE Goto(p, [f EXCEPT !.pc = "post"]) /\ Quiet /\ UNCHANGED ret
    /\ UNCHANGED <<remote, nextId, root, dirCache, mkdirCache, opsLeft, v2Vars, pacer, lister, others, dirCacheMu, dl>>

\* part_000 line 313: the number of listings made to find the folder after a 422
MaxRelists == 3

\* part_000 line 313, mutated: <= for <
RelistAgainOnceMore(attempt) == attempt <= MaxRelists

\* part_000 line 313: attempt < 3
RelistAgain(attempt) == attempt < MaxRelists

\* lines 266-305 (part_000 277-338 up to the reconciliation): the POST.  The
\* service answers 422 when the name is taken in the parent; the closure's
\* classification decides whether the pacer sends the POST again.  n counts
\* the POSTs of this call that were answered 422.
CfPost(p) ==
    /\ At(p, "createFolder", "post")
    /\ LET f == Top(p)
           name == Base(f.path)
           g == [f EXCEPT !.n = f.n + 1]
           h == [hist EXCEPT !.post422 = Put(@, f.path, g.n), !.saw422 = @ \cup {f.path}]
       IN \/ /\ Fails
             /\ Return(p, Result("CreateFailed", NoEntry))
             /\ UNCHANGED <<remote, nextId>>
          \/ /\ UNCHANGED failBudget
             /\ IF CanCreate(remote, name, f.cur)
                THEN /\ remote' = remote \cup {NewFolder(nextId, name, f.cur)}
                     /\ nextId' = nextId + 1
                     /\ Return(p, Result("", NewFolder(nextId, name, f.cur)))
                ELSE /\ UNCHANGED <<remote, nextId>>
                     /\ IF createFolderRetry(FALSE, 422, 422).retry /\ g.n < MaxTries
                        THEN /\ Goto(p, g)
                             /\ hist' = [h EXCEPT !.ev = NoEv]
                             /\ UNCHANGED ret
                        ELSE IF hist.ver = "part_000"
                             THEN /\ Goto(p, [g EXCEPT !.pc = "relist", !.i = 0])
                                  /\ hist' = [h EXCEPT !.ev = NoEv]
                                  /\ UNCHANGED ret
                             ELSE ReturnH(p, Result("Create422", NoEntry), h)
    /\ UNCHANGED <<root, dirCache, mkdirCache, opsLeft, v2Vars, pacer, lister, others, dirCacheMu, dl>>

\* part_000 lines 310-332: after a 422 the parent is listed again, up to
\* MaxRelists times (i counts the listings made), and the first folder of
\* that name is returned; otherwise the 422 error is
CfRelist(p) ==
    /\ At(p, "createFolder", "relist")
    /\ LET f == Top(p)
           e == FirstNamed(SelectSeq(ListEntries(remote, f.cur), LAMBDA x : x.type = "folder"),
                           Base(f.path))
           g == [f EXCEPT !.i = f.i + 1]
           h == [hist EXCEPT !.relists = Put(@, f.path, g.i)]
       IN IF ~RelistAgain(f.i)
          THEN Return(p, Result("Create422", NoEntry)) /\ UNCHANGED failBudget
          ELSE \/ /\ Fails
                  /\ Goto(p, g) /\ hist' = [h EXCEPT !.ev = NoEv] /\ UNCHANGED ret
               \/ /\ UNCHANGED failBudget
                  /\ IF e # NoEntry
                     THEN ReturnH(p, Result("", e), h)
                     ELSE Goto(p, g) /\ hist' = [h EXCEPT !.ev = NoEv] /\ UNCHANGED ret
    /\ UNCHANGED <<remote, nextId, root, dirCache, mkdirCache, opsLeft, v2Vars, pacer, lister, others, dirCacheMu, dl>>

(* ---- Fs.Mkdir and Fs.mkdir, drime.go 323-383 ---- *)

\* mutated: every caller finds a fresh Once
OnceStateFresh(path) == "new"

\* f.mkdirCache.LoadOrStore(dirPath, &sync.Once{}) and the state Do finds
OnceState(path) == Get(mkdirCache, path, "new")

\* what a caller arriving at the gate of dirPath does: Mkdir lines 324-335
\* up to the call of the body, and the return of a caller that finds the
\* Once already done (err is still nil).  While the Once is running the
\* caller waits inside Do.
MkGate(p) ==
    /\ At(p, "Mkdir", "gate")
    /\ LET f == Top(p) IN
         IF f.path = <<>>
         THEN Return(p, Result("", NoEntry)) /\ UNCHANGED mkdirCache
         ELSE /\ OnceState(f.path) # "running"
              /\ IF OnceState(f.path) = "new"
                 THEN /\ mkdirCache' = Put(mkdirCache, f.path, "running")
                      /\ stack' = [stack EXCEPT ![p] =
                             <<FindFrame(f.path), Frame("mkdir", "afterFind", f.path),
                               [f EXCEPT !.pc = "unlock"]>> \o Rest(p)]
                      /\ hist' = [hist EXCEPT !.ev = NoEv, !.bodyRuns = Inc(@, f.path)]
                      /\ UNCHANGED ret
                 ELSE /\ ReturnH(p, Result("", NoEntry),
                                 [hist EXCEPT !.gate = @ \cup {[path |-> f.path, ok |-> TRUE, exec |-> FALSE]}])
                      /\ UNCHANGED mkdirCache
    /\ UNCHANGED <<remote, nextId, failBudget, root, dirCache, opsLeft, v2Vars, pacer, lister, others, dirCacheMu, dl>>

\* the body has returned: the Once is marked done and Mkdir returns the
\* body's error
MkUnlock(p) ==
    /\ At(p, "Mkdir", "unlock")
    /\ LET f == Top(p) IN
         /\ mkdirCache' = Put(mkdirCache, f.path, "done")
         /\ ReturnH(p, ret[p],
                    [hist EXCEPT !.gate = @ \cup {[path |-> f.path, ok |-> ret[p].err = "", exec |-> TRUE]}])
    /\ UNCHANGED <<remote, nextId, failBudget, root, dirCache, opsLeft, v2Vars, pacer, lister, others, dirCacheMu, dl>>

CreateFrame(path, parentID) == [Frame("createFolder", "precheck", path) EXCEPT !.cur = parentID]

\* mkdir lines 341-363: the path resolved; if absent, the parent is made
MdAfterFind(p) ==
    /\ At(p, "mkdir", "afterFind")
    /\ LET f == Top(p)
           parentPath == Dir(f.path)
       IN IF ret[p].err = ""
          THEN Return(p, Result("", NoEntry))
          ELSE IF ret[p].err # "NotFound"
               THEN Return(p, Result(ret[p].err, NoEntry))
               ELSE IF parentPath # <<>>
                    THEN /\ CallFn(p, [f EXCEPT !.pc = "afterMkParent"],
                                   Frame("Mkdir", "gate", Join(root, TrimRootPrefix(root, parentPath))))
                         /\ Quiet /\ UNCHANGED ret
                    ELSE /\ CallFn(p, [f EXCEPT !.pc = "afterCreate"], CreateFrame(f.path, 0))
                         /\ hist' = [hist EXCEPT !.ev = NoEv, !.creates = Inc(@, f.path)]
                         /\ UNCHANGED ret
    /\ UNCHANGED <<remote, nextId, failBudget, root, dirCache, mkdirCache, opsLeft, v2Vars, pacer, lister, others, dirCacheMu, dl>>

\* mkdir lines 355-358
MdAfterMkParent(p) ==
    /\ At(p, "mkdir", "afterMkParent")
    /\ LET f == Top(p) IN
         IF ret[p].err # ""
         THEN Return(p, Result(ret[p].err, NoEntry))
         ELSE CallFn(p, [f EXCEPT !.pc = "afterFindParent"], FindFrame(Dir(f.path)))
              /\ Quiet /\ UNCHANGED ret
    /\ UNCHANGED <<remote, nextId, failBudget, root, dirCache, mkdirCache, opsLeft, v2Vars, pacer, lister, others, dirCacheMu, dl>>

\* mkdir line 363, mutated: the folder is created at the top level
parentIDNone(parentEntry) == 0

\* mkdir line 363: parentID = parentEntry.ID
parentIDOf(parentEntry) == parentEntry.id

\* mkdir lines 358-367
MdAfterFindParent(p) ==
    /\ At(p, "mkdir", "afterFindParent")
    /\ LET f == Top(p) IN
         IF ret[p].err # ""
         THEN Return(p, Result(ret[p].err, NoEntry))
         ELSE /\ CallFn(p, [f EXCEPT !.pc = "afterCreate"], CreateFrame(f.path, parentIDOf(ret[p].entry)))
              /\ hist' = [hist EXCEPT !.ev = NoEv, !.creates = Inc(@, f.path)]
              /\ UNCHANGED ret
    /\ UNCHANGED <<remote, nextId, failBudget, root, dirCache, mkdirCache, opsLeft, v2Vars, pacer, lister, others, dirCacheMu, dl>>

\* mkdir lines 377-380, mutated: the new folder is not cached
CacheNewFolderNot(cache, dirPath, entry) == cache

\* mkdir lines 377-380: f.dirCache[dirPath] = entry
CacheNewFolder(cache, dirPath, entry) == Put(cache, dirPath, entry)

\* mkdir lines 368-382: on an error the path is resolved again; otherwise the
\* new folder is cached under dirPath
MdAfterCreate(p) ==
    /\ At(p, "mkdir", "afterCreate")
    /\ LET f == Top(p) IN
         IF ret[p].err # ""
         THEN /\ CallFn(p, [f EXCEPT !.pc = "afterRefind", !.err = ret[p].err], FindFrame(f.path))
              /\ Quiet /\ UNCHANGED <<ret, dirCache>>
         ELSE /\ dirCache' = CacheNewFolder(dirCache, f.path, ret[p].entry)
              /\ ReturnH(p, Result("", ret[p].entry),
                         [hist EXCEPT !.created = Put(@, f.path, ret[p].entry.id)])
    /\ UNCHANGED <<remote, nextId, failBudget, root, mkdirCache, opsLeft, v2Vars, pacer, lister, others, dirCacheMu, dl>>

\* mkdir lines 370-374
MdAfterRefind(p) ==
    /\ At(p, "mkdir", "afterRefind")
    /\ LET f == Top(p) IN
         IF ret[p].err = ""
         THEN /\ dirCache' = addDirCacheEntry(dirCache, f.path, ret[p].entry)
              /\ Return(p, Result("", NoEntry))
         ELSE /\ Return(p, Result(f.err, NoEntry))
              /\ UNCHANGED dirCache
    /\ UNCHANGED <<remote, nextId, failBudget, root, mkdirCache, opsLeft, v2Vars, pacer, lister, others, dirCacheMu, dl>>

(* ---- findEntry run to its end by one caller with no other caller active:
        the same steps as FeCheck, FeWalk, FeList and FeAdd.  lists counts the
        listEntries calls; a failing listing is not drawn here. ---- *)

RECURSIVE findWalk(_, _, _, _, _)
findWalk(cache, rem, path, i, cur) ==
    IF i > Len(path)
    THEN [err |-> "NotFound", entry |-> NoEntry, cache |-> cache, lists |-> 0]
    ELSE LET currentPath == Prefix(path, i) IN
         IF prefixCached(cache, currentPath)
         THEN findWalk(cache, rem, path, i + 1, cache[currentPath].id)
         ELSE LET e == FirstNamed(ListEntries(rem, IF i = 1 THEN 0 ELSE cur), path[i])
                  c2 == IF e = NoEntry THEN cache ELSE addDirCacheEntry(cache, currentPath, e)
              IN IF e = NoEntry
                 THEN [err |-> "NotFound", entry |-> NoEntry,
                       cache |-> notFound(cache, currentPath), lists |-> 1]
                 ELSE IF i = Len(path)
                      THEN [err |-> "", entry |-> e, cache |-> c2, lists |-> 1]
                      ELSE LET r == findWalk(c2, rem, path, i + 1, e.id)
                           IN [r EXCEPT !.lists = @ + 1]

findEntry(cache, rem, path) ==
    IF path = <<>>
    THEN [err |-> "", entry |-> RootEntry, cache |-> cache, lists |-> 0]
    ELSE IF path \in DOMAIN cache
         THEN [err |-> "", entry |-> cache[path], cache |-> cache, lists |-> 0]
         ELSE findWalk(cache, rem, path, 1, 0)

(* ---- Fs.Rmdir, drime.go 386-419 ---- *)

\* lines 389-396
RdAfterFind(p) ==
    /\ At(p, "Rmdir", "afterFind")
    /\ LET f == Top(p) IN
         IF ret[p].err # ""
         THEN Return(p, Result(ret[p].err, NoEntry))
         ELSE IF ret[p].entry.type # "folder"
              THEN Return(p, Result("IsFile", NoEntry))
              ELSE Goto(p, [f EXCEPT !.pc = "list", !.ent = ret[p].entry]) /\ Quiet /\ UNCHANGED ret
    /\ UNCHANGED <<remote, nextId, failBudget, root, dirCache, mkdirCache, opsLeft, v2Vars, pacer, lister, others, dirCacheMu, dl>>

\* line 403, mutated: the folder is never found to have entries
RmdirNotEmptyNever(entries) == FALSE

\* line 403: len(entries) > 0
RmdirNotEmpty(entries) == Len(entries) > 0

\* lines 398-405: the emptiness check
RdList(p) ==
    /\ At(p, "Rmdir", "list")
    /\ LET f == Top(p) IN
         \/ /\ Fails
            /\ Return(p, Result("ListFailed", NoEntry))
         \/ /\ UNCHANGED failBudget
            /\ LET g == [f EXCEPT !.ents = ListEntries(remote, f.ent.id)] IN
                 IF RmdirNotEmpty(g.ents)
                 THEN ReturnF(p, Result("DirNotEmpty", NoEntry), g, hist)
                 ELSE Goto(p, [g EXCEPT !.pc = "delete"]) /\ Quiet /\ UNCHANGED ret
    /\ UNCHANGED <<remote, nextId, root, dirCache, mkdirCache, opsLeft, v2Vars, pacer, lister, others, dirCacheMu, dl>>

\* lines 407-411: deleteEntries; n counts the delete requests of this call
RdDelete(p) ==
    /\ At(p, "Rmdir", "delete")
    /\ LET f == Top(p)
           g == [f EXCEPT !.n = f.n + 1]
       IN \/ /\ Fails
             /\ ReturnF(p, Result("DeleteFailed", NoEntry), g, hist)
             /\ UNCHANGED remote
          \/ /\ UNCHANGED failBudget
             /\ IF CanDelete(remote, f.ent.id)
                THEN /\ remote' = AfterDelete(remote, f.ent.id)
                     /\ Goto(p, [g EXCEPT !.pc = "clear"]) /\ Quiet /\ UNCHANGED ret
                ELSE /\ ReturnF(p, Result("DeleteFailed", NoEntry), g, hist)
                     /\ UNCHANGED remote
    /\ UNCHANGED <<nextId, root, dirCache, mkdirCache, opsLeft, v2Vars, pacer, lister, others, dirCacheMu, dl>>

\* lines 413-416, mutated: the cache row is left in place
RmdirClearNone(cache, dirPath) == cache

\* lines 413-416: delete(f.dirCache, dirPath)
RmdirClear(cache, dirPath) == Drop(cache, dirPath)

RdClear(p) ==
    /\ At(p, "Rmdir", "clear")
    /\ LET f == Top(p) IN
         /\ dirCache' = RmdirClear(dirCache, f.path)
         /\ Return(p, Result("", f.ent))
    /\ UNCHANGED <<remote, nextId, failBudget, root, mkdirCache, opsLeft, v2Vars, pacer, lister, others, dirCacheMu, dl>>

(* ---- Fs.Purge, drime.go 422-436 ---- *)

PgAfterFind(p) ==
    /\ At(p, "Purge", "afterFind")
    /\ LET f == Top(p) IN
         IF ret[p].err # ""
         THEN Return(p, Result(ret[p].err, NoEntry))
         ELSE IF ret[p].entry.type # "folder"
              THEN Return(p, Result("IsFile", NoEntry))
              ELSE Goto(p, [f EXCEPT !.pc = "delete", !.ent = ret[p].entry]) /\ Quiet /\ UNCHANGED ret
    /\ UNCHANGED <<remote, nextId, failBudget, root, dirCache, mkdirCache, opsLeft, v2Vars, pacer, lister, others, dirCacheMu, dl>>

\* line 435: return f.api.deleteEntries(...)
PgDelete(p) ==
    /\ At(p, "Purge", "delete")
    /\ LET f == Top(p) IN
         \/ /\ Fails
            /\ Return(p, Result("DeleteFailed", NoEntry))
            /\ UNCHANGED remote
         \/ /\ UNCHANGED failBudget
            /\ IF CanDelete(remote, f.ent.id)
               THEN remote' = AfterDelete(remote, f.ent.id) /\ Return(p, Result("", f.ent))
               ELSE UNCHANGED remote /\ Return(p, Result("DeleteFailed", NoEntry))
    /\ UNCHANGED <<nextId, root, dirCache, mkdirCache, opsLeft, v2Vars, pacer, lister, others, dirCacheMu, dl>>

(* ---- Fs.DirMove, drime.go 483-525: path is srcPath, path2 is dstPath ---- *)

\* lines 493-507
DmAfterFindSrc(p) ==
    /\ At(p, "DirMove", "afterFindSrc")
    /\ LET f == Top(p)
           dstParentPath == Dir(f.path2)
       IN IF ret[p].err # ""
          THEN Return(p, Result(ret[p].err, NoEntry))
          ELSE IF dstParentPath # <<>>
               THEN CallFn(p, [f EXCEPT !.pc = "afterFindDst", !.ent = ret[p].entry],
                           FindFrame(dstParentPath))
                    /\ Quiet /\ UNCHANGED ret
               ELSE Goto(p, [f EXCEPT !.pc = "move", !.ent = ret[p].entry, !.cur = 0])
                    /\ Quiet /\ UNCHANGED ret
    /\ UNCHANGED <<remote, nextId, failBudget, root, dirCache, mkdirCache, opsLeft, v2Vars, pacer, lister, others, dirCacheMu, dl>>

DmAfterFindDst(p) ==
    /\ At(p, "DirMove", "afterFindDst")
    /\ LET f == Top(p) IN
         IF ret[p].err # ""
         THEN Return(p, Result(ret[p].err, NoEntry))
         ELSE Goto(p, [f EXCEPT !.pc = "move", !.cur = ret[p].entry.id]) /\ Quiet /\ UNCHANGED ret
    /\ UNCHANGED <<remote, nextId, failBudget, root, dirCache, mkdirCache, opsLeft, v2Vars, pacer, lister, others, dirCacheMu, dl>>

\* lines 474-476 and 520-522, mutated: the error of renameEntry is dropped
renameErrDropped(err) == ""

\* lines 474-476 and 520-522: if err != nil { return err }
renameErr(err) == err

\* lines 509-517: moveEntries, then rename only when the names differ
DmMove(p) ==
    /\ At(p, "DirMove", "move")
    /\ LET f == Top(p)
           h == [hist EXCEPT !.mv = [@ EXCEPT !.old = TheEntry(remote, f.ent.id), !.dest = f.cur]]
       IN
         \/ /\ Fails
            /\ Return(p, Result("MoveFailed", NoEntry))
            /\ UNCHANGED remote
         \/ /\ UNCHANGED failBudget
            /\ IF CanMove(remote, f.ent.id, f.cur)
               THEN /\ remote' = AfterMove(remote, f.ent.id, f.cur)
                    /\ IF Base(f.path2) # f.ent.name
                       THEN Goto(p, [f EXCEPT !.pc = "rename"])
                            /\ hist' = [h EXCEPT !.ev = NoEv] /\ UNCHANGED ret
                       ELSE ReturnH(p, Result("", f.ent), h)
               ELSE UNCHANGED remote /\ Return(p, Result("MoveFailed", NoEntry))
    /\ UNCHANGED <<nextId, root, dirCache, mkdirCache, opsLeft, v2Vars, pacer, lister, others, dirCacheMu, dl>>

\* lines 518-524
DmRename(p) ==
    /\ At(p, "DirMove", "rename")
    /\ LET f == Top(p)
           h == [hist EXCEPT !.mv = [@ EXCEPT !.renames = @ + 1]]
           hf == [h EXCEPT !.mv = [@ EXCEPT !.failed = TRUE]]
       IN
         \/ /\ Fails
            /\ ReturnH(p, Result(renameErr("RenameFailed"), NoEntry), hf)
            /\ UNCHANGED remote
         \/ /\ UNCHANGED failBudget
            /\ IF CanRename(remote, f.ent.id, Base(f.path2))
               THEN remote' = AfterRename(remote, f.ent.id, Base(f.path2))
                    /\ ReturnH(p, Result("", f.ent), h)
               ELSE UNCHANGED remote
                    /\ ReturnH(p, Result(renameErr("RenameFailed"), NoEntry), hf)
    /\ UNCHANGED <<nextId, root, dirCache, mkdirCache, opsLeft, v2Vars, pacer, lister, others, dirCacheMu, dl>>

(* ---- Object.readMetadata, part_002 122-148 (NewObject) ---- *)

ReadMetaFrames(path) ==
    IF Dir(path) # <<>>
    THEN <<FindFrame(Dir(path)), Frame("readMetadata", "afterFind", path)>>
    ELSE <<Frame("readMetadata", "list", path)>>

RmAfterFind(p) ==
    /\ At(p, "readMetadata", "afterFind")
    /\ LET f == Top(p) IN
         IF ret[p].err # ""
         THEN Return(p, Result(ret[p].err, NoEntry))
         ELSE Goto(p, [f EXCEPT !.pc = "list", !.cur = ret[p].entry.id]) /\ Quiet /\ UNCHANGED ret
    /\ UNCHANGED <<remote, nextId, failBudget, root, dirCache, mkdirCache, opsLeft, v2Vars, pacer, lister, others, dirCacheMu, dl>>

\* lines 136-147: the first listed entry of that name that is not a folder
RmList(p) ==
    /\ At(p, "readMetadata", "list")
    /\ LET f == Top(p)
           ents == ListEntries(remote, f.cur)
           e == FirstNamed(SelectSeq(ents, LAMBDA x : x.type # "folder"), Base(f.path))
       IN \/ /\ Fails
             /\ Return(p, Result("ListFailed", NoEntry))
          \/ /\ UNCHANGED failBudget
             /\ IF e = NoEntry
                THEN Return(p, Result("NotFound", NoEntry))
                ELSE Return(p, Result("", e))
    /\ UNCHANGED <<remote, nextId, root, dirCache, mkdirCache, opsLeft, v2Vars, pacer, lister, others, dirCacheMu, dl>>

(* ---- Fs.Move, drime.go 444-480: path is dstPath, path2 is srcObj.remote,
        ent.id is srcObj.id ---- *)

MvAfterFindDst(p) ==
    /\ At(p, "Move", "afterFindDst")
    /\ LET f == Top(p) IN
         IF ret[p].err # ""
         THEN Return(p, Result(ret[p].err, NoEntry))
         ELSE Goto(p, [f EXCEPT !.pc = "move", !.cur = ret[p].entry.id]) /\ Quiet /\ UNCHANGED ret
    /\ UNCHANGED <<remote, nextId, failBudget, root, dirCache, mkdirCache, opsLeft, v2Vars, pacer, lister, others, dirCacheMu, dl>>

\* line 471: the rename is needed when the two base names differ
MoveNeedsRename(dstPath, srcRemote) == Base(dstPath) # Base(srcRemote)

\* lines 463-479
MvMove(p) ==
    /\ At(p, "Move", "move")
    /\ LET f == Top(p)
           h == [hist EXCEPT !.mv = [@ EXCEPT !.old = TheEntry(remote, f.ent.id), !.dest = f.cur]]
       IN
         \/ /\ Fails
            /\ Return(p, Result("MoveFailed", NoEntry))
            /\ UNCHANGED remote
         \/ /\ UNCHANGED failBudget
            /\ IF CanMove(remote, f.ent.id, f.cur)
               THEN /\ remote' = AfterMove(remote, f.ent.id, f.cur)
                    /\ IF MoveNeedsRename(f.path, f.path2)
                       THEN Goto(p, [f EXCEPT !.pc = "rename"])
                       ELSE stack' = [stack EXCEPT ![p] =
                                ReadMetaFrames(f.path) \o <<[f EXCEPT !.pc = "afterNew"]>> \o Rest(p)]
                    /\ hist' = [h EXCEPT !.ev = NoEv] /\ UNCHANGED ret
               ELSE UNCHANGED remote /\ Return(p, Result("MoveFailed", NoEntry))
    /\ UNCHANGED <<nextId, root, dirCache, mkdirCache, opsLeft, v2Vars, pacer, lister, others, dirCacheMu, dl>>

MvRename(p) ==
    /\ At(p, "Move", "rename")
    /\ LET f == Top(p)
           g == [f EXCEPT !.n = 1]
           h == [hist EXCEPT !.mv = [@ EXCEPT !.renames = @ + 1]]
           hf == [h EXCEPT !.mv = [@ EXCEPT !.failed = TRUE]]
       IN \/ /\ Fails
             /\ ReturnF(p, Result(renameErr("RenameFailed"), NoEntry), g, hf)
             /\ UNCHANGED remote
          \/ /\ UNCHANGED failBudget
             /\ IF CanRename(remote, f.ent.id, Base(f.path))
                THEN /\ remote' = AfterRename(remote, f.ent.id, Base(f.path))
                     /\ stack' = [stack EXCEPT ![p] =
                            ReadMetaFrames(f.path) \o <<[g EXCEPT !.pc = "afterNew"]>> \o Rest(p)]
                     /\ hist' = [h EXCEPT !.ev = NoEv] /\ UNCHANGED ret
                ELSE UNCHANGED remote
                     /\ ReturnF(p, Result(renameErr("RenameFailed"), NoEntry), g, hf)
    /\ UNCHANGED <<nextId, root, dirCache, mkdirCache, opsLeft, v2Vars, pacer, lister, others, dirCacheMu, dl>>

\* line 479: return f.NewObject(ctx, remote)
MvAfterNew(p) ==
    /\ At(p, "Move", "afterNew")
    /\ Return(p, ret[p])
    /\ UNCHANGED <<remote, nextId, failBudget, root, dirCache, mkdirCache, opsLeft, v2Vars, pacer, lister, others, dirCacheMu, dl>>

(* ---- Object.Remove, part_002 109-111: ent.id is o.id ---- *)

RvDelete(p) ==
    /\ At(p, "Remove", "delete")
    /\ LET f == Top(p) IN
         \/ /\ Fails
            /\ Return(p, Result("DeleteFailed", NoEntry))
            /\ UNCHANGED remote
         \/ /\ UNCHANGED failBudget
            /\ IF CanDelete(remote, f.ent.id)
               THEN remote' = AfterDelete(remote, f.ent.id) /\ Return(p, Result("", f.ent))
               ELSE UNCHANGED remote /\ Return(p, Result("DeleteFailed", NoEntry))
    /\ UNCHANGED <<nextId, root, dirCache, mkdirCache, opsLeft, v2Vars, pacer, lister, others, dirCacheMu, dl>>

(* ---- Fs.List, drime.go 248-292: path is dirPath ---- *)

\* lines 254-256: if err != nil { return nil, fs.ErrorDirNotFound }
listFindErr(err) == "DirNotFound"

\* lines 253-260: every resolver error becomes ErrorDirNotFound
LsAfterFind(p) ==
    /\ At(p, "List", "afterFind")
    /\ LET f == Top(p) IN
         IF ret[p].err # ""
         THEN ReturnF(p, Result(listFindErr(ret[p].err), NoEntry), [f EXCEPT !.err = ret[p].err], hist)
         ELSE IF ret[p].entry.type # "folder"
              THEN Return(p, Result("IsFile", NoEntry))
              ELSE Goto(p, [f EXCEPT !.pc = "list", !.cur = ret[p].entry.id]) /\ Quiet /\ UNCHANGED ret
    /\ UNCHANGED <<remote, nextId, failBudget, root, dirCache, mkdirCache, opsLeft, v2Vars, pacer, lister, others, dirCacheMu, dl>>

\* lines 263-266
LsList(p) ==
    /\ At(p, "List", "list")
    /\ LET f == Top(p) IN
         \/ /\ Fails
            /\ Return(p, Result("ListFailed", NoEntry))
         \/ /\ UNCHANGED failBudget
            /\ Goto(p, [f EXCEPT !.pc = "cache", !.ents = ListEntries(remote, f.cur)])
            /\ Quiet /\ UNCHANGED ret
    /\ UNCHANGED <<remote, nextId, root, dirCache, mkdirCache, opsLeft, v2Vars, pacer, lister, others, dirCacheMu, dl>>

\* lines 268-289, mutated: the listing is returned and nothing is cached
CacheListedNone(cache, dirPath, ents) == cache

\* lines 268-289: each folder child is cached under root/dir/name
RECURSIVE CacheListed(_, _, _)
CacheListed(cache, dirPath, ents) ==
    IF ents = <<>> THEN cache
    ELSE CacheListed(IF Head(ents).type = "folder"
                     THEN addDirCacheEntry(cache, Join(dirPath, <<Head(ents).name>>), Head(ents))
                     ELSE cache,
                     dirPath, Tail(ents))

LsCache(p) ==
    /\ At(p, "List", "cache")
    /\ LET f == Top(p) IN
         /\ dirCache' = CacheListed(dirCache, f.path, f.ents)
         /\ Return(p, Result("", NoEntry))
    /\ UNCHANGED <<remote, nextId, failBudget, root, mkdirCache, opsLeft, v2Vars, pacer, lister, others, dirCacheMu, dl>>

---------------------------------------------------------------------------
(* Operations the callers start *)

\* the account at the start of a session: folder a (id 1) holding file x (id 2)
InitRemote ==
    {[id |-> 1, name |-> "a", type |-> "folder", parent |-> 0],
     [id |-> 2, name |-> "x", type |-> "file", parent |-> 1]}
FirstFreeId == Cardinality(InitRemote) + 1

\* the dir arguments the callers pass
MkdirDirs == {<<"a">>, <<"b">>, <<"b", "a">>}
FindPaths == {<<"a">>, <<"b">>, <<"b", "a">>, <<"a", "x">>}

Idle(p) == stack[p] = <<>> /\ opsLeft[p] > 0

Begin(p, frames) ==
    /\ stack' = [stack EXCEPT ![p] = frames]
    /\ opsLeft' = [opsLeft EXCEPT ![p] = @ - 1]
    /\ hist' = [hist EXCEPT !.ev = NoEv, !.saw422 = {}, !.fail0 = failBudget, !.mv = NoMv]
    /\ UNCHANGED <<remote, nextId, failBudget, root, dirCache, mkdirCache, ret, v2Vars, pacer, lister, others, dirCacheMu, dl>>

\* Fs.Mkdir(ctx, dir): dirPath := path.Join(f.root, dir)
StartMkdir(p) ==
    /\ Idle(p)
    /\ \E dir \in MkdirDirs : Begin(p, <<Frame("Mkdir", "gate", Join(root, dir))>>)

\* f.findEntry(ctx, remotePath) called for itself (NewFs, readMetadata)
StartFind(p) ==
    /\ Idle(p)
    /\ \E path \in FindPaths : Begin(p, <<FindFrame(path)>>)

\* a start that also remembers the cache as the operation found it
BeginSnap(p, frames) ==
    /\ stack' = [stack EXCEPT ![p] = frames]
    /\ opsLeft' = [opsLeft EXCEPT ![p] = @ - 1]
    /\ hist' = [hist EXCEPT !.ev = NoEv, !.snap = dirCache, !.saw422 = {}, !.fail0 = failBudget,
                             !.mv = NoMv]
    /\ UNCHANGED <<remote, nextId, failBudget, root, dirCache, mkdirCache, ret, v2Vars, pacer, lister, others, dirCacheMu, dl>>

DirArgs == {<<"a">>, <<"b">>}

\* Fs.Rmdir(ctx, dir)
StartRmdir(p) ==
    /\ Idle(p)
    /\ \E dir \in DirArgs :
         BeginSnap(p, <<FindFrame(Join(root, dir)), Frame("Rmdir", "afterFind", Join(root, dir))>>)

\* Fs.Purge(ctx, dir)
StartPurge(p) ==
    /\ Idle(p)
    /\ \E dir \in DirArgs :
         Begin(p, <<FindFrame(Join(root, dir)), Frame("Purge", "afterFind", Join(root, dir))>>)

\* Fs.List(ctx, dir); the account root is listed with a nil parent
StartList(p) ==
    /\ Idle(p)
    /\ \E dir \in DirArgs \cup {<<>>} :
         LET dirPath == Join(root, dir) IN
         Begin(p, IF dirPath # <<>>
                  THEN <<FindFrame(dirPath), Frame("List", "afterFind", dirPath)>>
                  ELSE <<Frame("List", "list", dirPath)>>)

DirMoves == {<< <<"a">>, <<"b">> >>, << <<"b">>, <<"a", "b">> >>, << <<"b">>, <<"a", "c">> >>}

\* Fs.DirMove(ctx, src, srcRemote, dstRemote) with src the same Fs
StartDirMove(p) ==
    /\ Idle(p)
    /\ \E m \in DirMoves :
         Begin(p, <<FindFrame(Join(root, m[1])),
                    [Frame("DirMove", "afterFindSrc", Join(root, m[1])) EXCEPT !.path2 = Join(root, m[2])]>>)

\* the Objects a caller may hold: the files as NewObject finds them now
Objects == {e \in remote : e.type = "file" /\ Len(PathOf(remote, e)) > Len(root)
                           /\ SubSeq(PathOf(remote, e), 1, Len(root)) = root}
ObjRemote(e) == SubSeq(PathOf(remote, e), Len(root) + 1, Len(PathOf(remote, e)))

MoveDsts == {<<"b", "x">>, <<"x">>, <<"b">>}

\* Fs.Move(ctx, src, remote), lines 445-461
StartMove(p) ==
    /\ Idle(p)
    /\ \E e \in Objects, dst \in MoveDsts :
         LET dstPath == Join(root, dst)
             f == [Frame("Move", "move", dstPath) EXCEPT !.path2 = ObjRemote(e), !.ent = e]
         IN Begin(p, IF Dir(dstPath) # <<>>
                     THEN <<FindFrame(Dir(dstPath)), [f EXCEPT !.pc = "afterFindDst"]>>
                     ELSE <<f>>)

\* Object.Remove(ctx)
StartRemove(p) ==
    /\ Idle(p)
    /\ \E e \in Objects :
         Begin(p, <<[Frame("Remove", "delete", PathOf(remote, e)) EXCEPT !.ent = e]>>)

NoHist == [ev |-> NoEv, bodyRuns |-> EmptyMap, creates |-> EmptyMap, created |-> EmptyMap,
           gate |-> {}, snap |-> EmptyMap, fail0 |-> MaxFail, mon |-> NoMon,
           ver |-> "api", post422 |-> EmptyMap, saw422 |-> {}, relists |-> EmptyMap,
           mv |-> NoMv]

InitFs ==
    /\ remote = InitRemote
    /\ nextId = FirstFreeId
    /\ failBudget = MaxFail
    /\ root = <<>>
    /\ dirCache = EmptyMap
    /\ mkdirCache = EmptyMap
    /\ stack = [p \in Procs |-> <<>>]
    /\ ret = [p \in Procs |-> Result("", NoEntry)]
    /\ hist = NoHist

InitV2 ==
    /\ pathCache = EmptyMap
    /\ entryCache = EmptyMap
    /\ last2 = NoEv
    /\ lister = ListerIdle

(* ---- concurrent callers of Mkdir and findEntry ---- *)

RECURSIVE Total(_, _)
Total(f, n) == IF n = 0 THEN 0 ELSE f[n] + Total(f, n - 1)

InitConc ==
    /\ InitFs
    /\ InitV2
    /\ others = 0
    /\ dirCacheMu = NoLocks
    /\ dl = DlIdle
    /\ pacer = PacerIdle
    /\ opsLeft \in {f \in [Procs -> 0..MaxOps] : Total(f, NProcs) = MaxOps}

MkdirSteps(p) ==
    \/ MkGate(p) \/ MkUnlock(p)
    \/ MdAfterFind(p) \/ MdAfterMkParent(p) \/ MdAfterFindParent(p)
    \/ MdAfterCreate(p) \/ MdAfterRefind(p)
    \/ CfPrecheck(p) \/ CfPost(p)

FindSteps(p) == FeCheck(p) \/ FeWalk(p) \/ FeList(p) \/ FeAdd(p)

NextConc ==
    \E p \in Procs :
        StartMkdir(p) \/ StartFind(p) \/ MkdirSteps(p) \/ FindSteps(p)

SpecConc == InitConc /\ [][NextConc]_vars

(* ---- concurrent callers of Mkdir on a Fs whose root is "" or "r" ---- *)

Roots == {<<>>, <<"r">>}

\* the account: the folder r besides a and a/x
RootRemote == InitRemote \cup {[id |-> 3, name |-> "r", type |-> "folder", parent |-> 0]}

InitRoot ==
    /\ remote = RootRemote
    /\ nextId = Cardinality(RootRemote) + 1
    /\ failBudget = MaxFail
    /\ root \in Roots
    /\ dirCache = EmptyMap
    /\ mkdirCache = EmptyMap
    /\ stack = [p \in Procs |-> <<>>]
    /\ ret = [p \in Procs |-> Result("", NoEntry)]
    /\ hist = NoHist
    /\ InitV2
    /\ others = 0
    /\ dirCacheMu = NoLocks
    /\ dl = DlIdle
    /\ pacer = PacerIdle
    /\ opsLeft \in {f \in [Procs -> 0..MaxOps] : Total(f, NProcs) = MaxOps}

NextRoot ==
    \E p \in Procs : StartMkdir(p) \/ MkdirSteps(p) \/ FindSteps(p)

SpecRoot == InitRoot /\ [][NextRoot]_vars

(* ---- one caller of Mkdir and findEntry, and another client of the same
        account ---- *)

ApiVersions == {"api", "part_000"}

\* the names the other client creates at the top level
OtherNames == {"b"}

\* Another client of the account (another Fs, another session) creates a
\* folder or a file at the top level.
OtherClientCreates(p) ==
    /\ others > 0
    /\ p = 1
    /\ \E name \in OtherNames, type \in {"folder", "file"} :
         /\ CanCreate(remote, name, 0)
         /\ remote' = remote \cup {[NewFolder(nextId, name, 0) EXCEPT !.type = type]}
    /\ nextId' = nextId + 1
    /\ others' = others - 1
    /\ Quiet
    /\ UNCHANGED <<failBudget, root, dirCache, mkdirCache, stack, ret, opsLeft, v2Vars, pacer, lister, dirCacheMu, dl>>

InitExt ==
    /\ remote = InitRemote
    /\ nextId = FirstFreeId
    /\ failBudget = MaxFail
    /\ root = <<>>
    /\ dirCache = EmptyMap
    /\ mkdirCache = EmptyMap
    /\ stack = [p \in Procs |-> <<>>]
    /\ ret = [p \in Procs |-> Result("", NoEntry)]
    /\ \E v \in ApiVersions : hist = [NoHist EXCEPT !.ver = v]
    /\ InitV2
    /\ pacer = PacerIdle
    /\ opsLeft = [p \in Procs |-> IF p = 1 THEN MaxOps ELSE 0]
    /\ others = MaxOthers
    /\ dirCacheMu = NoLocks
    /\ dl = DlIdle

NextExt ==
    \E p \in Procs :
        \/ StartMkdir(p) \/ StartFind(p)
        \/ MkdirSteps(p) \/ CfRelist(p) \/ FindSteps(p) \/ OtherClientCreates(p)

SpecExt == InitExt /\ [][NextExt]_vars

(* ---- one pacer.Call ---- *)

InitRetry ==
    /\ InitFs
    /\ InitV2
    /\ others = 0
    /\ dirCacheMu = NoLocks
    /\ dl = DlIdle
    /\ opsLeft = [p \in Procs |-> 0]
    /\ pacer = PacerIdle

NextRetry == PacerStart \/ PacerCancel \/ PacerAttempt

SpecRetry == InitRetry /\ [][NextRetry]_vars

(* ---- one listEntries call ---- *)

NextList == ListStart \/ ListPage \/ ListPageFails

SpecList == InitRetry /\ [][NextList]_vars

(* ---- one caller, every operation of the dirCache version ---- *)

InitSeq ==
    /\ InitFs
    /\ InitV2
    /\ others = 0
    /\ dirCacheMu = NoLocks
    /\ dl = DlIdle
    /\ pacer = PacerIdle
    /\ opsLeft = [p \in Procs |-> IF p = 1 THEN MaxSeqOps ELSE 0]

NextSeq ==
    \E p \in Procs :
        \/ StartMkdir(p) \/ StartRmdir(p) \/ StartPurge(p) \/ StartList(p)
        \/ StartDirMove(p) \/ StartMove(p) \/ StartRemove(p)
        \/ MkdirSteps(p) \/ FindSteps(p)
        \/ RdAfterFind(p) \/ RdList(p) \/ RdDelete(p) \/ RdClear(p)
        \/ PgAfterFind(p) \/ PgDelete(p)
        \/ DmAfterFindSrc(p) \/ DmAfterFindDst(p) \/ DmMove(p) \/ DmRename(p)
        \/ MvAfterFindDst(p) \/ MvMove(p) \/ MvRename(p) \/ MvAfterNew(p)
        \/ RmAfterFind(p) \/ RmList(p)
        \/ RvDelete(p)
        \/ LsAfterFind(p) \/ LsList(p) \/ LsCache(p)

SpecSeq == InitSeq /\ [][NextSeq]_vars

---------------------------------------------------------------------------
(* apiClient.download, api.go 210-237 (part_000 211-238): the URL requested
   for an entry.  A string is the sequence of its pieces; no piece is the
   beginning of another, so one string begins with another exactly when
   its pieces begin with the other's pieces. *)

\* the longest entry.URL, in pieces
MaxUrlLen == 6

UrlPieces == {"http", "s", ":", "/", "api", "f"}
Urls == UNION {[1..n -> UrlPieces] : n \in 0..MaxUrlLen}

\* "http://", "https://", "api/"
HttpPrefix == <<"http", ":", "/", "/">>
HttpsPrefix == <<"http", "s", ":", "/", "/">>
ApiPrefix == <<"api", "/">>

\* api.go 223: "https://app.drime.cloud/"
HostURL == HttpsPrefix \o <<"app.drime.cloud", "/">>

\* api.go 16: apiBaseURL = "https://app.drime.cloud/api/v1"
apiBaseURL == HostURL \o <<"api", "/", "v1">>

\* strings.HasPrefix, strings.TrimPrefix
HasPrefix(str, prefix) ==
    Len(str) >= Len(prefix) /\ SubSeq(str, 1, Len(prefix)) = prefix
TrimPrefix(str, prefix) ==
    IF HasPrefix(str, prefix) THEN SubSeq(str, Len(prefix) + 1, Len(str)) ELSE str

\* line 223, mutated: the API base is put before a URL that has the prefix
joinHostDup(downloadURL) == apiBaseURL \o <<"/">> \o downloadURL

\* line 223: downloadURL = "https://app.drime.cloud/" + downloadURL
joinHost(downloadURL) == HostURL \o downloadURL

\* lines 211-228: downloadURL as it is requested
downloadURL(entryURL) ==
    IF ~HasPrefix(entryURL, HttpPrefix) /\ ~HasPrefix(entryURL, HttpsPrefix)
    THEN LET u == TrimPrefix(entryURL, <<"/">>) IN
         IF HasPrefix(u, ApiPrefix)
         THEN joinHost(u)
         ELSE apiBaseURL \o <<"/">> \o u
    ELSE entryURL

\* download is called for an entry, and computes the URL it requests
DlNormalize ==
    /\ dl.state = "called"
    /\ dl' = [dl EXCEPT !.state = "requested", !.out = downloadURL(dl.url)]
    /\ UNCHANGED <<fsVars, v2Vars, pacer, lister, others, dirCacheMu>>

InitDl ==
    /\ InitFs
    /\ InitV2
    /\ others = 0
    /\ dirCacheMu = NoLocks
    /\ pacer = PacerIdle
    /\ opsLeft = [p \in Procs |-> 0]
    /\ \E url \in Urls : dl = [state |-> "called", url |-> url, out |-> <<>>]

NextDl == DlNormalize

SpecDl == InitDl /\ [][NextDl]_vars

---------------------------------------------------------------------------
(* The dirCache version at the granularity of its lock operations: findEntry
   (drime.go 181-245), addDirCacheEntry (171-178) and the end of mkdir
   (365-383), with every RLock, Lock and unlock of dirCacheMu and every
   remote call as a step of its own.  A remote call is two steps, the
   request and the arrival of the response; between them the caller is in
   the call.  The pc of a frame is the line the caller is about to run. *)

\* sync.RWMutex
CanRLock(mu) == mu.w = 0
RLock(mu, p) == [mu EXCEPT !.r = @ \cup {p}]
CanLock(mu) == mu.w = 0 /\ mu.r = {}
Lock(mu, p) == [mu EXCEPT !.w = p]
Unlock(mu, p) == [mu EXCEPT !.w = 0]

\* lines 191 and 205, mutated: the read lock is kept
RUnlockNot(mu, p) == mu

\* lines 191 and 205: f.dirCacheMu.RUnlock()
RUnlock(mu, p) == [mu EXCEPT !.r = @ \ {p}]

HoldsLock(p) == p \in dirCacheMu.r \/ dirCacheMu.w = p

\* the caller has sent the request of a remote call and has no response yet
InRemoteCall(p) == stack[p] # <<>> /\ Top(p).pc \in {"L217call", "L367call"}

LockPaths == {<<"a">>, <<"b">>, <<"a", "x">>}

\* findEntry called for itself
StartFindL(p) ==
    /\ Idle(p)
    /\ \E path \in LockPaths : Begin(p, <<Frame("findEntry", "L189", path)>>)

\* mkdir from line 365 on, for a dirPath at the top level (parentID 0)
StartCreateL(p) ==
    /\ Idle(p)
    /\ Begin(p, <<Frame("mkdir", "L367", <<"b">>)>>)

\* line 189: f.dirCacheMu.RLock()
FeL189(p) ==
    /\ At(p, "findEntry", "L189")
    /\ CanRLock(dirCacheMu)
    /\ dirCacheMu' = RLock(dirCacheMu, p)
    /\ Goto(p, [Top(p) EXCEPT !.pc = "L190"]) /\ Quiet
    /\ UNCHANGED <<remote, nextId, failBudget, root, dirCache, mkdirCache, ret, opsLeft, v2Vars, pacer, lister, others, dl>>

\* lines 190-194: the read of the whole path, the unlock, the return on a hit
FeL190(p) ==
    /\ At(p, "findEntry", "L190")
    /\ dirCacheMu' = RUnlock(dirCacheMu, p)
    /\ LET f == Top(p) IN
         IF f.path \in DOMAIN dirCache
         THEN Return(p, Result("", dirCache[f.path]))
         ELSE Goto(p, [f EXCEPT !.pc = "L203", !.i = 1, !.cur = 0]) /\ Quiet /\ UNCHANGED ret
    /\ UNCHANGED <<remote, nextId, failBudget, root, dirCache, mkdirCache, opsLeft, v2Vars, pacer, lister, others, dl>>

\* line 203: f.dirCacheMu.RLock() in the loop; past the last segment the
\* function ends at line 244
FeL203(p) ==
    /\ At(p, "findEntry", "L203")
    /\ LET f == Top(p) IN
         IF f.i > Len(f.path)
         THEN Return(p, Result("NotFound", NoEntry)) /\ UNCHANGED dirCacheMu
         ELSE /\ CanRLock(dirCacheMu)
              /\ dirCacheMu' = RLock(dirCacheMu, p)
              /\ Goto(p, [f EXCEPT !.pc = "L204"]) /\ Quiet /\ UNCHANGED ret
    /\ UNCHANGED <<remote, nextId, failBudget, root, dirCache, mkdirCache, opsLeft, v2Vars, pacer, lister, others, dl>>

\* lines 204-210: the read of the prefix, the unlock, and continue on a hit
FeL204(p) ==
    /\ At(p, "findEntry", "L204")
    /\ dirCacheMu' = RUnlock(dirCacheMu, p)
    /\ LET f == Top(p)
           currentPath == Prefix(f.path, f.i)
       IN IF prefixCached(dirCache, currentPath)
          THEN Goto(p, [f EXCEPT !.pc = "L203", !.i = f.i + 1, !.cur = dirCache[currentPath].id])
          ELSE Goto(p, [f EXCEPT !.pc = "L217"])
    /\ Quiet
    /\ UNCHANGED <<remote, nextId, failBudget, root, dirCache, mkdirCache, ret, opsLeft, v2Vars, pacer, lister, others, dl>>

\* line 217: the request of f.api.listEntries(ctx, parentID) goes out
FeL217(p) ==
    /\ At(p, "findEntry", "L217")
    /\ Goto(p, [Top(p) EXCEPT !.pc = "L217call"]) /\ Quiet
    /\ UNCHANGED <<remote, nextId, failBudget, root, dirCache, mkdirCache, ret, opsLeft, v2Vars, pacer, lister, others, dirCacheMu, dl>>

\* lines 217-241: the response of listEntries and the scan for the segment
FeL217Resp(p) ==
    /\ At(p, "findEntry", "L217call")
    /\ LET f == Top(p)
           parentID == IF f.i = 1 THEN 0 ELSE f.cur
           e == FirstNamed(ListEntries(remote, parentID), f.path[f.i])
       IN \/ /\ Fails
             /\ Return(p, Result("ListFailed", NoEntry))
          \/ /\ UNCHANGED failBudget
             /\ IF e = NoEntry
                THEN Return(p, Result("NotFound", NoEntry))
                ELSE IF e.type = "folder"
                     THEN CallFn(p, [f EXCEPT !.pc = "L229", !.ent = e],
                                 [Frame("addDirCacheEntry", "L172", Prefix(f.path, f.i)) EXCEPT !.ent = e])
                          /\ Quiet /\ UNCHANGED ret
                     ELSE Goto(p, [f EXCEPT !.pc = "L229", !.ent = e]) /\ Quiet /\ UNCHANGED ret
    /\ UNCHANGED <<remote, nextId, root, dirCache, mkdirCache, opsLeft, v2Vars, pacer, lister, others, dirCacheMu, dl>>

\* lines 229-234: the entry is returned for the last segment, else descended into
FeL229(p) ==
    /\ At(p, "findEntry", "L229")
    /\ LET f == Top(p) IN
         IF f.i = Len(f.path)
         THEN Return(p, Result("", f.ent))
         ELSE Goto(p, [f EXCEPT !.pc = "L203", !.i = f.i + 1, !.cur = f.ent.id, !.ent = NoEntry])
              /\ Quiet /\ UNCHANGED ret
    /\ UNCHANGED <<remote, nextId, failBudget, root, dirCache, mkdirCache, opsLeft, v2Vars, pacer, lister, others, dirCacheMu, dl>>

\* addDirCacheEntry lines 172-175: the type check, then f.dirCacheMu.Lock()
AdL172(p) ==
    /\ At(p, "addDirCacheEntry", "L172")
    /\ LET f == Top(p) IN
         IF f.ent.type # "folder"
         THEN Return(p, ret[p]) /\ UNCHANGED dirCacheMu
         ELSE /\ CanLock(dirCacheMu)
              /\ dirCacheMu' = Lock(dirCacheMu, p)
              /\ Goto(p, [f EXCEPT !.pc = "L177"]) /\ Quiet /\ UNCHANGED ret
    /\ UNCHANGED <<remote, nextId, failBudget, root, dirCache, mkdirCache, opsLeft, v2Vars, pacer, lister, others, dl>>

\* addDirCacheEntry lines 176-178: the write, and the deferred unlock at the return
AdL177(p) ==
    /\ At(p, "addDirCacheEntry", "L177")
    /\ dirCache' = Put(dirCache, Top(p).path, Top(p).ent)
    /\ dirCacheMu' = Unlock(dirCacheMu, p)
    /\ Return(p, ret[p])
    /\ UNCHANGED <<remote, nextId, failBudget, root, mkdirCache, opsLeft, v2Vars, pacer, lister, others, dl>>

\* mkdir line 367: the request of f.api.createFolder(ctx, name, parentID) goes out
MkL367(p) ==
    /\ At(p, "mkdir", "L367")
    /\ Goto(p, [Top(p) EXCEPT !.pc = "L367call"]) /\ Quiet
    /\ UNCHANGED <<remote, nextId, failBudget, root, dirCache, mkdirCache, ret, opsLeft, v2Vars, pacer, lister, others, dirCacheMu, dl>>

\* mkdir lines 367-370: the response of createFolder; on an error the path
\* is resolved again
MkL367Resp(p) ==
    /\ At(p, "mkdir", "L367call")
    /\ LET f == Top(p)
           name == Base(f.path)
           e == FirstNamed(SelectSeq(ListEntries(remote, 0), LAMBDA x : x.type = "folder"), name)
           refind == CallFn(p, [f EXCEPT !.pc = "L371", !.err = "CreateFailed"],
                            Frame("findEntry", "L189", f.path))
       IN \/ /\ Fails
             /\ refind /\ Quiet
             /\ UNCHANGED <<remote, nextId>>
          \/ /\ UNCHANGED failBudget
             /\ IF e # NoEntry
                THEN Goto(p, [f EXCEPT !.pc = "L378", !.ent = e]) /\ Quiet /\ UNCHANGED <<remote, nextId>>
                ELSE IF CanCreate(remote, name, 0)
                     THEN /\ remote' = remote \cup {NewFolder(nextId, name, 0)}
                          /\ nextId' = nextId + 1
                          /\ Goto(p, [f EXCEPT !.pc = "L378", !.ent = NewFolder(nextId, name, 0)])
                          /\ Quiet
                     ELSE refind /\ Quiet /\ UNCHANGED <<remote, nextId>>
    /\ UNCHANGED <<root, dirCache, mkdirCache, ret, opsLeft, v2Vars, pacer, lister, others, dirCacheMu, dl>>

\* mkdir lines 370-375: the second findEntry has returned
MkL371(p) ==
    /\ At(p, "mkdir", "L371")
    /\ LET f == Top(p) IN
         IF ret[p].err = ""
         THEN CallFn(p, [f EXCEPT !.pc = "L372"],
                     [Frame("addDirCacheEntry", "L172", f.path) EXCEPT !.ent = ret[p].entry])
              /\ Quiet /\ UNCHANGED ret
         ELSE Return(p, Result(f.err, NoEntry))
    /\ UNCHANGED <<remote, nextId, failBudget, root, dirCache, mkdirCache, opsLeft, v2Vars, pacer, lister, others, dirCacheMu, dl>>

\* mkdir line 372: return nil
MkL372(p) ==
    /\ At(p, "mkdir", "L372")
    /\ Return(p, Result("", NoEntry))
    /\ UNCHANGED <<remote, nextId, failBudget, root, dirCache, mkdirCache, opsLeft, v2Vars, pacer, lister, others, dirCacheMu, dl>>

\* mkdir line 378: f.dirCacheMu.Lock()
MkL378(p) ==
    /\ At(p, "mkdir", "L378")
    /\ CanLock(dirCacheMu)
    /\ dirCacheMu' = Lock(dirCacheMu, p)
    /\ Goto(p, [Top(p) EXCEPT !.pc = "L379"]) /\ Quiet
    /\ UNCHANGED <<remote, nextId, failBudget, root, dirCache, mkdirCache, ret, opsLeft, v2Vars, pacer, lister, others, dl>>

\* mkdir lines 379-382: the write, the unlock, return nil
MkL379(p) ==
    /\ At(p, "mkdir", "L379")
    /\ dirCache' = Put(dirCache, Top(p).path, Top(p).ent)
    /\ dirCacheMu' = Unlock(dirCacheMu, p)
    /\ Return(p, Result("", NoEntry))
    /\ UNCHANGED <<remote, nextId, failBudget, root, mkdirCache, opsLeft, v2Vars, pacer, lister, others, dl>>

\* every caller runs at most one operation
InitLock ==
    /\ InitFs
    /\ InitV2
    /\ others = 0
    /\ dirCacheMu = NoLocks
    /\ dl = DlIdle
    /\ pacer = PacerIdle
    /\ opsLeft = [p \in Procs |-> 1]

NextLock ==
    \E p \in Procs :
        \/ StartFindL(p) \/ StartCreateL(p)
        \/ FeL189(p) \/ FeL190(p) \/ FeL203(p) \/ FeL204(p)
        \/ FeL217(p) \/ FeL217Resp(p) \/ FeL229(p)
        \/ AdL172(p) \/ AdL177(p)
        \/ MkL367(p) \/ MkL367Resp(p) \/ MkL371(p) \/ MkL372(p) \/ MkL378(p) \/ MkL379(p)

SpecLock == InitLock /\ [][NextLock]_vars

---------------------------------------------------------------------------
(* The two-table version of drime.go (lines 540-1080) with object.go: one
   caller, each operation taken as one step. *)

\* findEntry lines 739-773: every segment is listed from the root down, the
\* first entry of that name is adopted whatever its type and put into
\* entryCache
RECURSIVE find2Walk(_, _, _, _, _)
find2Walk(ec, rem, parts, i, cur) ==
    IF i > Len(parts)
    THEN [err |-> "", cur |-> cur, ec |-> ec, lists |-> 0]
    ELSE LET e == FirstNamed(ListEntries(rem, cur), parts[i]) IN
         IF e = NoEntry
         THEN [err |-> "NotFound", cur |-> cur, ec |-> ec, lists |-> 1]
         ELSE LET r == find2Walk(Put(ec, e.id, e), rem, parts, i + 1, e.id)
              IN [r EXCEPT !.lists = @ + 1]

\* findEntry lines 723-794; f.rootID is never set and stays nil
findEntry2(pc, ec, rem, path) ==
    IF path \in DOMAIN pc /\ pc[path] \in DOMAIN ec
    THEN [err |-> "", entry |-> ec[pc[path]], pc |-> pc, ec |-> ec, lists |-> 0]
    ELSE IF path = <<>>
         THEN [err |-> "NotFound", entry |-> NoEntry, pc |-> pc, ec |-> ec, lists |-> 0]
         ELSE LET w == find2Walk(ec, rem, path, 1, 0) IN
              IF w.err # ""
              THEN [err |-> w.err, entry |-> NoEntry, pc |-> pc, ec |-> w.ec, lists |-> w.lists]
              ELSE [err |-> "", entry |-> w.ec[w.cur], pc |-> Put(pc, path, w.cur),
                    ec |-> w.ec, lists |-> w.lists]

Ev2(op, path, path2, err, id) ==
    [op |-> op, path |-> path, path2 |-> path2, err |-> err, id |-> id, n |-> 0,
     ents |-> <<>>, proc |-> 1, moved |-> FALSE, cause |-> ""]

Idle2 == opsLeft[1] > 0

\* the step of an operation that leaves the remote as it is
Done2(ev, pc, ec) ==
    /\ last2' = ev
    /\ pathCache' = pc
    /\ entryCache' = ec
    /\ opsLeft' = [opsLeft EXCEPT ![1] = @ - 1]
    /\ UNCHANGED <<failBudget, root, dirCache, mkdirCache, stack, ret, hist, pacer, lister, others, dirCacheMu, dl>>

\* the step of an operation in which one remote call failed
Done2Failing(ev, pc, ec) ==
    /\ Fails
    /\ last2' = ev
    /\ pathCache' = pc
    /\ entryCache' = ec
    /\ opsLeft' = [opsLeft EXCEPT ![1] = @ - 1]
    /\ UNCHANGED <<root, dirCache, mkdirCache, stack, ret, hist, pacer, lister, others, dirCacheMu, dl>>

\* findEntry called for itself (NewFs, NewObject), and with the empty path
\* as Mkdir, Rmdir and Purge call it for dir "" on a Fs whose root is "";
\* n is the number of listEntries calls it made
Find2 ==
    /\ Idle2
    /\ \E path \in FindPaths \cup {<<"b", "x">>, <<>>} :
         LET r == findEntry2(pathCache, entryCache, remote, Join(root, path))
         IN Done2([Ev2("findEntry", Join(root, path), <<>>, r.err, r.entry.id) EXCEPT !.n = r.lists],
                  r.pc, r.ec)
    /\ UNCHANGED <<remote, nextId>>

\* List lines 822-834: every listed entry, file or folder, goes into both tables
RECURSIVE CacheListed2(_, _, _, _)
CacheListed2(pc, ec, dirPath, ents) ==
    IF ents = <<>> THEN [pc |-> pc, ec |-> ec]
    ELSE CacheListed2(Put(pc, Join(dirPath, <<Head(ents).name>>), Head(ents).id),
                      Put(ec, Head(ents).id, Head(ents)), dirPath, Tail(ents))

\* Fs.List, lines 797-852
List2 ==
    /\ Idle2
    /\ \E dir \in DirArgs \cup {<<>>} :
         LET dirPath == Join(root, dir)
             r == findEntry2(pathCache, entryCache, remote, dirPath)
             parentID == IF dirPath # <<>> THEN r.entry.id ELSE 0
             c == CacheListed2(r.pc, r.ec, dirPath, ListEntries(remote, parentID))
         IN IF dirPath # <<>> /\ r.err # ""
            THEN Done2(Ev2("List", dirPath, <<>>,
                           IF r.err = "NotFound" THEN "DirNotFound" ELSE r.err, -1), r.pc, r.ec)
            ELSE IF dirPath # <<>> /\ r.entry.type # "folder"
                 THEN Done2(Ev2("List", dirPath, <<>>, "IsFile", -1), r.pc, r.ec)
                 ELSE IF dirPath = <<>>
                      THEN LET c0 == CacheListed2(pathCache, entryCache, dirPath, ListEntries(remote, 0))
                           IN Done2([Ev2("List", dirPath, <<>>, "", -1)
                                       EXCEPT !.ents = ListEntries(remote, 0)], c0.pc, c0.ec)
                      ELSE Done2([Ev2("List", dirPath, <<>>, "", -1)
                                    EXCEPT !.ents = ListEntries(remote, parentID)], c.pc, c.ec)
    /\ UNCHANGED <<remote, nextId>>

\* Move line 1013: dstName != srcObj.remote
Move2NeedsRename(dstPath, srcRemote) == <<Base(dstPath)>> # srcRemote

\* Object.readMetadata, object.go 82-94 (NewObject)
readMetadata2(pc, ec, rem, remotePath) ==
    LET r == findEntry2(pc, ec, rem, remotePath) IN
    IF r.err # "" THEN r
    ELSE IF r.entry.type = "folder" THEN [r EXCEPT !.err = "IsDir", !.entry = NoEntry]
    ELSE r

\* Fs.Move, lines 986-1022
Move2 ==
    /\ Idle2
    /\ \E e \in Objects, dst \in MoveDsts :
         LET dstPath == Join(root, dst)
             srcPath == PathOf(remote, e)
             dstParentPath == Dir(dstPath)
             r == findEntry2(pathCache, entryCache, remote, dstParentPath)
             dstParentID == IF dstParentPath # <<>> THEN r.entry.id ELSE 0
             pc1 == IF dstParentPath # <<>> THEN r.pc ELSE pathCache
             ec1 == IF dstParentPath # <<>> THEN r.ec ELSE entryCache
             rem1 == AfterMove(remote, e.id, dstParentID)
             rename == Move2NeedsRename(dstPath, ObjRemote(e))
             rem2 == IF rename THEN AfterRename(rem1, e.id, Base(dstPath)) ELSE rem1
             m == readMetadata2(pc1, ec1, rem2, dstPath)
         IN IF dstParentPath # <<>> /\ r.err # ""
            THEN Done2(Ev2("Move", dstPath, srcPath, r.err, e.id), r.pc, r.ec) /\ UNCHANGED remote
            ELSE IF ~CanMove(remote, e.id, dstParentID)
                 THEN Done2(Ev2("Move", dstPath, srcPath, "MoveFailed", e.id), pc1, ec1) /\ UNCHANGED remote
                 ELSE IF rename /\ ~CanRename(rem1, e.id, Base(dstPath))
                      THEN Done2([Ev2("Move", dstPath, srcPath, "RenameFailed", e.id)
                                    EXCEPT !.n = 1, !.moved = TRUE], pc1, ec1)
                           /\ remote' = rem1
                      ELSE Done2([Ev2("Move", dstPath, srcPath, m.err, e.id)
                                    EXCEPT !.n = IF rename THEN 1 ELSE 0, !.moved = TRUE],
                                 m.pc, m.ec)
                           /\ remote' = rem2
    /\ UNCHANGED nextId

\* lines 887-890: after findEntry only err == nil ends Mkdir; with any error
\* it goes on to the parent and to createFolder
MkdirGoesOn(err) == err # ""

\* Fs.Mkdir, lines 883-921, with createFolder's listing check.  The
\* listEntries call of the first findEntry may fail; cause is the error of
\* that findEntry, n the number of createFolder calls.
Mkdir2 ==
    /\ Idle2
    /\ \E dir \in MkdirDirs, fail \in BOOLEAN :
         LET dirPath == Join(root, dir)
             r0 == findEntry2(pathCache, entryCache, remote, dirPath)
             r == IF fail
                  THEN [err |-> "ListFailed", entry |-> NoEntry, pc |-> pathCache,
                        ec |-> entryCache, lists |-> 1]
                  ELSE r0
             parentPath == Dir(dirPath)
             q == findEntry2(r.pc, r.ec, remote, parentPath)
             parentID == IF parentPath # <<>> THEN q.entry.id ELSE 0
             pc1 == IF parentPath # <<>> THEN q.pc ELSE r.pc
             ec1 == IF parentPath # <<>> THEN q.ec ELSE r.ec
             old == FirstNamed(SelectSeq(ListEntries(remote, parentID), LAMBDA x : x.type = "folder"),
                               Base(dirPath))
             new == NewFolder(nextId, Base(dirPath), parentID)
             Ev(err, id, n) == [Ev2("Mkdir", dirPath, <<>>, err, id) EXCEPT !.cause = r.err, !.n = n]
             Done(ev, pc, ec) == IF fail THEN Done2Failing(ev, pc, ec) ELSE Done2(ev, pc, ec)
         IN /\ fail => r0.lists > 0
            /\ IF r.err = ""
               THEN Done(Ev("", -1, 0), r.pc, r.ec) /\ UNCHANGED <<remote, nextId>>
               ELSE IF ~MkdirGoesOn(r.err)
                    THEN Done(Ev(r.err, -1, 0), r.pc, r.ec) /\ UNCHANGED <<remote, nextId>>
                    ELSE IF parentPath # <<>> /\ q.err # ""
                         THEN Done(Ev(q.err, -1, 0), q.pc, q.ec) /\ UNCHANGED <<remote, nextId>>
                         ELSE IF old # NoEntry
                              THEN Done(Ev("", old.id, 1),
                                        Put(pc1, dirPath, old.id), Put(ec1, old.id, old))
                                   /\ UNCHANGED <<remote, nextId>>
                              ELSE IF ~CanCreate(remote, Base(dirPath), parentID)
                                   THEN Done(Ev("CreateFailed", -1, 1), pc1, ec1)
                                        /\ UNCHANGED <<remote, nextId>>
                                   ELSE /\ Done(Ev("", new.id, 1),
                                                Put(pc1, dirPath, new.id), Put(ec1, new.id, new))
                                        /\ remote' = remote \cup {new}
                                        /\ nextId' = nextId + 1

\* Fs.Rmdir, lines 924-961
Rmdir2 ==
    /\ Idle2
    /\ \E dir \in DirArgs :
         LET dirPath == Join(root, dir)
             r == findEntry2(pathCache, entryCache, remote, dirPath)
         IN IF r.err # ""
            THEN Done2(Ev2("Rmdir", dirPath, <<>>, r.err, -1), r.pc, r.ec) /\ UNCHANGED remote
            ELSE IF r.entry.type # "folder"
                 THEN Done2(Ev2("Rmdir", dirPath, <<>>, "IsFile", -1), r.pc, r.ec) /\ UNCHANGED remote
                 ELSE IF Len(ListEntries(remote, r.entry.id)) > 0
                      THEN Done2(Ev2("Rmdir", dirPath, <<>>, "DirNotEmpty", -1), r.pc, r.ec)
                           /\ UNCHANGED remote
                      ELSE IF ~CanDelete(remote, r.entry.id)
                           THEN Done2(Ev2("Rmdir", dirPath, <<>>, "DeleteFailed", -1), r.pc, r.ec)
                                /\ UNCHANGED remote
                           ELSE /\ Done2(Ev2("Rmdir", dirPath, <<>>, "", r.entry.id),
                                         Drop(r.pc, dirPath), Drop(r.ec, r.entry.id))
                                /\ remote' = AfterDelete(remote, r.entry.id)
    /\ UNCHANGED nextId

\* Fs.Purge, lines 964-978
Purge2 ==
    /\ Idle2
    /\ \E dir \in DirArgs :
         LET dirPath == Join(root, dir)
             r == findEntry2(pathCache, entryCache, remote, dirPath)
         IN IF r.err # ""
            THEN Done2(Ev2("Purge", dirPath, <<>>, r.err, -1), r.pc, r.ec) /\ UNCHANGED remote
            ELSE IF r.entry.type # "folder"
                 THEN Done2(Ev2("Purge", dirPath, <<>>, "IsFile", -1), r.pc, r.ec) /\ UNCHANGED remote
                 ELSE IF ~CanDelete(remote, r.entry.id)
                      THEN Done2(Ev2("Purge", dirPath, <<>>, "DeleteFailed", -1), r.pc, r.ec)
                           /\ UNCHANGED remote
                      ELSE /\ Done2(Ev2("Purge", dirPath, <<>>, "", r.entry.id), r.pc, r.ec)
                           /\ remote' = AfterDelete(remote, r.entry.id)
    /\ UNCHANGED nextId

\* Fs.DirMove, lines 1025-1067
DirMove2 ==
    /\ Idle2
    /\ \E m \in DirMoves :
         LET srcPath == Join(root, m[1])
             dstPath == Join(root, m[2])
             r == findEntry2(pathCache, entryCache, remote, srcPath)
             dstParentPath == Dir(dstPath)
             q == findEntry2(r.pc, r.ec, remote, dstParentPath)
             dstParentID == IF dstParentPath # <<>> THEN q.entry.id ELSE 0
             pc1 == IF dstParentPath # <<>> THEN q.pc ELSE r.pc
             ec1 == IF dstParentPath # <<>> THEN q.ec ELSE r.ec
             rem1 == AfterMove(remote, r.entry.id, dstParentID)
             rename == Base(dstPath) # r.entry.name
         IN IF r.err # ""
            THEN Done2(Ev2("DirMove", srcPath, dstPath, r.err, -1), r.pc, r.ec) /\ UNCHANGED remote
            ELSE IF dstParentPath # <<>> /\ q.err # ""
                 THEN Done2(Ev2("DirMove", srcPath, dstPath, q.err, -1), q.pc, q.ec) /\ UNCHANGED remote
                 ELSE IF ~CanMove(remote, r.entry.id, dstParentID)
                      THEN Done2(Ev2("DirMove", srcPath, dstPath, "MoveFailed", -1), pc1, ec1)
                           /\ UNCHANGED remote
                      ELSE IF rename /\ ~CanRename(rem1, r.entry.id, Base(dstPath))
                           THEN Done2(Ev2("DirMove", srcPath, dstPath, "RenameFailed", -1), pc1, ec1)
                                /\ remote' = rem1
                           ELSE /\ Done2(Ev2("DirMove", srcPath, dstPath, "", r.entry.id), pc1, ec1)
                                /\ remote' = IF rename THEN AfterRename(rem1, r.entry.id, Base(dstPath))
                                             ELSE rem1
    /\ UNCHANGED nextId

\* Object.Remove, object.go 151-168
Remove2 ==
    /\ Idle2
    /\ \E e \in Objects :
         /\ Done2(Ev2("Remove", PathOf(remote, e), <<>>, "", e.id),
                  Drop(pathCache, Join(root, ObjRemote(e))), Drop(entryCache, e.id))
         /\ remote' = AfterDelete(remote, e.id)
    /\ UNCHANGED nextId

Init2 ==
    /\ InitFs
    /\ InitV2
    /\ others = 0
    /\ dirCacheMu = NoLocks
    /\ dl = DlIdle
    /\ pacer = PacerIdle
    /\ opsLeft = [p \in Procs |-> IF p = 1 THEN MaxSeqOps ELSE 0]

Next2 ==
    \/ Find2 \/ List2 \/ Move2 \/ Mkdir2 \/ Rmdir2 \/ Purge2 \/ DirMove2 \/ Remove2

Spec2 == Init2 /\ [][Next2]_vars

---------------------------------------------------------------------------
(* findEntry of both versions on an account where a listing holds several
   entries of one name: one caller, the account left as it is. *)

\* folder a and a second entry named a at the top level, files named x below
DupRemotes ==
    {InitRemote \cup {[id |-> 3, name |-> "a", type |-> "folder", parent |-> 0],
                      [id |-> 4, name |-> "x", type |-> "folder", parent |-> 1],
                      [id |-> 5, name |-> "x", type |-> "file", parent |-> 3]},
     {[id |-> 1, name |-> "a", type |-> "file", parent |-> 0],
      [id |-> 2, name |-> "a", type |-> "folder", parent |-> 0],
      [id |-> 3, name |-> "x", type |-> "file", parent |-> 2]},
     {[id |-> 1, name |-> "b", type |-> "folder", parent |-> 0],
      [id |-> 2, name |-> "b", type |-> "file", parent |-> 0],
      [id |-> 3, name |-> "a", type |-> "folder", parent |-> 1],
      [id |-> 4, name |-> "a", type |-> "folder", parent |-> 1]}}

InitDup ==
    /\ remote \in DupRemotes
    /\ nextId = Cardinality(remote) + 1
    /\ failBudget = MaxFail
    /\ root = <<>>
    /\ dirCache = EmptyMap
    /\ mkdirCache = EmptyMap
    /\ stack = [p \in Procs |-> <<>>]
    /\ ret = [p \in Procs |-> Result("", NoEntry)]
    /\ hist = NoHist
    /\ InitV2
    /\ others = 0
    /\ dirCacheMu = NoLocks
    /\ dl = DlIdle
    /\ pacer = PacerIdle
    /\ opsLeft = [p \in Procs |-> IF p = 1 THEN MaxSeqOps ELSE 0]

NextDup ==
    \/ \E p \in Procs : StartFind(p) \/ FindSteps(p)
    \/ Find2

SpecDup == InitDup /\ [][NextDup]_vars

---------------------------------------------------------------------------
(* Properties *)

AllReturned == \A p \in Procs : stack[p] = <<>>

\* C1: however many callers invoke Mkdir for a path, its creation body runs
\* at most once, createFolder is called at most once for it, and once every
\* caller has returned the path resolves, for whoever asks, to the id that
\* the one createFolder call returned.
C1_MkdirAtMostOnce ==
    /\ \A path \in DOMAIN hist.bodyRuns : hist.bodyRuns[path] <= 1
    /\ \A path \in DOMAIN hist.creates : hist.creates[path] <= 1
    /\ AllReturned =>
         \A path \in DOMAIN hist.created :
             LET r == findEntry(dirCache, remote, path)
             IN r.err = "" /\ r.entry.id = hist.created[path]

\* C1 witness: two callers went through the gate of b, one ran the body and
\* created the folder, and all have returned
C1_Witness ==
    /\ AllReturned
    /\ <<"b">> \in DOMAIN hist.created
    /\ hist.bodyRuns[<<"b">>] = 1
    /\ \E r1, r2 \in hist.gate : r1.path = <<"b">> /\ r2.path = <<"b">> /\ r1.exec /\ ~r2.exec

\* C2: all callers that went through the gate of one path report the same
\* outcome, success or failure, as the caller that ran the body.
C2_AllObserveOutcome ==
    \A r1, r2 \in hist.gate : r1.path = r2.path => r1.ok = r2.ok

IsPrefixOf(a, b) == Len(a) <= Len(b) /\ SubSeq(b, 1, Len(a)) = a

\* the operation that returned to the user in the step just taken
Returned(op) == hist.ev.op = op
ReturnedOk(op) == hist.ev.op = op /\ hist.ev.err = ""

\* what findEntry of the path just operated on would return now
ResolveNow == findEntry(dirCache, remote, hist.ev.path)

\* C3: right after a Mkdir that created the folder, findEntry of its path
\* returns the id createFolder returned, and makes no listEntries call.
C3_CreatedFolderResolvesFromCache ==
    (ReturnedOk("Mkdir") /\ hist.ev.id >= 1) =>
        /\ ResolveNow.err = ""
        /\ ResolveNow.entry.id = hist.ev.id
        /\ ResolveNow.lists = 0

C3_Witness ==
    /\ ReturnedOk("Mkdir") /\ hist.ev.id >= 1
    /\ hist.ev.path = <<"b", "a">>
    /\ \E e \in remote : e.id = hist.ev.id /\ e.name = "a" /\ e.parent # 0

\* C5: right after a successful DirMove the cache holds no row, at the old
\* path or below it, for the moved folder or anything in it.
C5_DirMoveDropsOldPath ==
    ReturnedOk("DirMove") =>
        \A k \in DOMAIN dirCache :
            IsPrefixOf(hist.ev.path, k) => dirCache[k].id \notin Subtree(remote, {hist.ev.id})

\* C6: right after a successful Purge the cache holds no row for the purged
\* path, for a path below it or for the purged id, and findEntry of the path
\* does not return the deleted folder.
C6_PurgeClearsCache ==
    ReturnedOk("Purge") =>
        /\ \A k \in DOMAIN dirCache :
               ~IsPrefixOf(hist.ev.path, k) /\ dirCache[k].id # hist.ev.id
        /\ ResolveNow.entry.id # hist.ev.id

\* the two-table version: the operation of the step just taken
Returned2Ok(op) == last2.op = op /\ last2.err = ""

\* C4: right after a successful Move of a file from one path to another,
\* findEntry of the old path fails with NotFound and findEntry of the new
\* path returns the moved file's id, whichever of the two is asked first
\* and whatever the tables held before the move.
C4_MoveInvalidatesOldPath ==
    (Returned2Ok("Move") /\ last2.path2 # last2.path) =>
        LET a1 == findEntry2(pathCache, entryCache, remote, last2.path2)
            b1 == findEntry2(a1.pc, a1.ec, remote, last2.path)
            b2 == findEntry2(pathCache, entryCache, remote, last2.path)
            a2 == findEntry2(b2.pc, b2.ec, remote, last2.path2)
        IN /\ a1.err = "NotFound" /\ a2.err = "NotFound"
           /\ b1.err = "" /\ b1.entry.id = last2.id
           /\ b2.err = "" /\ b2.entry.id = last2.id

\* C7: right after a successful Rmdir or Object.Remove the cache holds no
\* row for the deleted path and no row for the deleted id, and findEntry of
\* the path asks the remote and fails with NotFound.
C7_DeleteClearsCacheRows ==
    (ReturnedOk("Rmdir") \/ ReturnedOk("Remove")) =>
        /\ hist.ev.path \notin DOMAIN dirCache
        /\ \A k \in DOMAIN dirCache : dirCache[k].id # hist.ev.id
        /\ ResolveNow.err = "NotFound"
        /\ ResolveNow.lists >= 1

\* the Rmdir that just returned had listed entries in the folder
RmdirSawEntries == Returned("Rmdir") /\ Len(hist.ev.ents) > 0

\* the Rmdir that just returned follows a refused Rmdir of the same path and
\* the removal of the one child that Rmdir had seen
RmdirAfterChildRemoved == Returned("Rmdir") /\ hist.mon.stage = 3

\* C8 as stated: an Rmdir whose listing is non-empty returns DirNotEmpty,
\* sends no delete request and leaves the cache exactly as the call found
\* it; after the only child is removed, the same Rmdir sends the delete and
\* succeeds.
C8_RmdirNotEmptyCacheUnchanged ==
    /\ RmdirSawEntries =>
          /\ hist.ev.err = "DirNotEmpty"
          /\ hist.ev.n = 0
          /\ dirCache = hist.snap
    /\ RmdirAfterChildRemoved =>
          \/ failBudget < hist.fail0
          \/ hist.ev.err = "" /\ hist.ev.n = 1

\* C8, amended: an Rmdir whose listing is non-empty returns DirNotEmpty,
\* sends no delete request and removes or changes no cache row (resolving
\* the path may add rows); after the only child is removed, the same Rmdir
\* sends the delete and succeeds unless one of its remote calls fails.
C8_RmdirNotEmptyGuard ==
    /\ RmdirSawEntries =>
          /\ hist.ev.err = "DirNotEmpty"
          /\ hist.ev.n = 0
          /\ \A k \in DOMAIN hist.snap : k \in DOMAIN dirCache /\ dirCache[k] = hist.snap[k]
    /\ RmdirAfterChildRemoved =>
          \/ failBudget < hist.fail0
          \/ hist.ev.err = "" /\ hist.ev.n = 1

\* C8 witness: Rmdir of a was refused, x was removed, Rmdir of a then
\* deleted the folder
C8_Witness ==
    /\ RmdirAfterChildRemoved
    /\ hist.ev.path = <<"a">>
    /\ hist.ev.err = "" /\ hist.ev.n = 1
    /\ remote = {}

\* C9: no attempt that ended with status 401, 403, 404 or 422 is retried.
C9_NoRetryOnClientError ==
    \A i \in 1..Len(pacer.log) :
        pacer.log[i].resp \in {401, 403, 404, 422} => ~pacer.log[i].retry

C11_TransientRetriedThenSuccess ==
    /\ \A i \in 1..Len(pacer.log) :
          LET a == pacer.log[i] IN
          ~a.ctx =>
             /\ (a.resp = 0 \/ a.resp = 429 \/ a.resp >= 500) => a.retry
             /\ (a.resp \in 200..299) => ~a.retry
    /\ (/\ Len(pacer.log) >= 2
        /\ pacer.log[1].resp = 503 /\ ~pacer.log[1].ctx
        /\ pacer.log[2].resp = 200)
       => /\ Len(pacer.log) = 2
          /\ pacer.state = "done"
          /\ pacer.err = 0

\* C11 witness: 503, then 200, and the call has returned without error
C11_Witness ==
    /\ pacer.state = "done"
    /\ Len(pacer.log) = 2
    /\ pacer.log[1].resp = 503 /\ pacer.log[1].retry /\ ~pacer.log[1].ctx
    /\ pacer.log[2].resp = 200 /\ ~pacer.log[2].retry
    /\ pacer.err = 0

\* the items of pages 1..n in page order
RECURSIVE Concat(_, _)
Concat(sizes, n) == IF n = 0 THEN <<>> ELSE Concat(sizes, n - 1) \o PageResponse(sizes, n).data

\* C12: listEntries asks for pages 1, 2, ... in steps of one and for no page
\* past lastPage, and when it returns it returns the items of pages 1 to
\* lastPage in page order, after exactly lastPage requests.
C12_AllPagesInOrder ==
    /\ lister.state \in {"busy", "done"} =>
          /\ \A i \in 1..Len(lister.reqs) : lister.reqs[i] = i
          /\ Len(lister.reqs) <= Len(lister.sizes)
    /\ lister.state = "done" =>
          /\ Len(lister.reqs) = Len(lister.sizes)
          /\ lister.allEntries = Concat(lister.sizes, Len(lister.sizes))

\* C12 witness: three pages of 2, 2 and 1 items gave 5 entries in 3 requests
C12_Witness ==
    /\ lister.state = "done"
    /\ lister.sizes = <<2, 2, 1>>
    /\ lister.reqs = <<1, 2, 3>>
    /\ lister.allEntries = <<1, 2, 3, 4, 5>>

\* C13: right after a successful Mkdir every prefix of the full path is a
\* folder on the remote, and no path has had more than one createFolder
\* call made for it.
C13_MkdirLeavesPrefixesAsFolders ==
    ReturnedOk("Mkdir") =>
        /\ \A i \in 1..Len(hist.ev.path) :
               \E e \in AtPath(remote, Prefix(hist.ev.path, i)) : e.type = "folder"
        /\ \A path \in DOMAIN hist.creates : hist.creates[path] <= 1

\* the folders now at the path of the operation that just returned
FoldersAtPath == {e \in AtPath(remote, hist.ev.path) : e.type = "folder"}

\* the Mkdir that just returned had its creation POST answered 422, and
\* none of its remote calls failed otherwise
MkdirGot422 ==
    /\ Returned("Mkdir")
    /\ hist.ev.path \in hist.saw422
    /\ failBudget = hist.fail0

\* C14: a creation POST answered 422 is sent once only, and the Mkdir whose
\* POST got the 422 returns success with the existing folder cached under
\* the path if a folder of that name is in the parent; it returns an error,
\* the 422 one, only if there is no such folder.
C14_422RoutesToReconciliation ==
    /\ \A path \in DOMAIN hist.post422 : hist.post422[path] = 1
    /\ MkdirGot422 =>
          /\ FoldersAtPath # {} =>
                /\ hist.ev.err = ""
                /\ hist.ev.path \in DOMAIN dirCache
                /\ dirCache[hist.ev.path] \in FoldersAtPath
          /\ hist.ev.err # "" =>
                /\ hist.ev.err = "Create422"
                /\ FoldersAtPath = {}

\* C14 witness: another client created folder b between the check and the
\* POST of Mkdir(b); the POST got 422 and Mkdir returned success with that
\* folder cached
C14_Witness ==
    /\ MkdirGot422
    /\ hist.ev.path = <<"b">>
    /\ hist.ev.err = ""
    /\ hist.post422[<<"b">>] = 1
    /\ dirCache[<<"b">>] \in FoldersAtPath

\* a caller to which createFolder has just returned after listing the
\* parent again because of a 422
BackFromRelist(p) ==
    /\ At(p, "mkdir", "afterCreate")
    /\ Top(p).path \in DOMAIN hist.relists

\* C15: after a 422 createFolder lists the parent at most MaxRelists times;
\* it returns the folder of the requested name if one of the listings shows
\* it, and otherwise returns the 422 error once all MaxRelists listings
\* have been made.
C15_ReconciliationBounded ==
    /\ \A path \in DOMAIN hist.relists : hist.relists[path] <= MaxRelists
    /\ \A p \in Procs :
          /\ At(p, "createFolder", "relist") => Top(p).i <= MaxRelists
          /\ BackFromRelist(p) =>
                IF ret[p].err = ""
                THEN /\ ret[p].entry.type = "folder"
                     /\ ret[p].entry.name = Base(Top(p).path)
                     /\ ret[p].entry \in remote
                ELSE /\ ret[p].err = "Create422"
                     /\ hist.relists[Top(p).path] = MaxRelists

\* C15 witness: the name is taken by a file, three listings showed no such
\* folder, and createFolder returned the 422 error
C15_Witness ==
    \E p \in Procs :
        /\ BackFromRelist(p)
        /\ ret[p].err = "Create422"
        /\ hist.relists[Top(p).path] = MaxRelists
        /\ \E e \in remote : e.name = "b" /\ e.type = "file"

\* C16: when Move or DirMove has returned after moveEntries succeeded and
\* renameEntry failed, it returned an error, it made exactly one renameEntry
\* request, and the service holds the entry under the destination parent with
\* the name and type it had before the operation.
C16_RenameFailureLeavesMovedEntry ==
    (hist.ev.op \in {"Move", "DirMove"} /\ hist.mv.failed) =>
        /\ hist.ev.err # ""
        /\ hist.mv.renames = 1
        /\ \E e \in remote : /\ e.id = hist.mv.old.id
                             /\ e.parent = hist.mv.dest
                             /\ e.name = hist.mv.old.name
                             /\ e.type = hist.mv.old.type

\* a Move, and a DirMove, whose rename failed after the entry changed parent
C16_WitnessMove ==
    /\ hist.ev.op = "Move"
    /\ hist.mv.failed
    /\ hist.mv.old.parent # hist.mv.dest

C16_Witness ==
    /\ hist.ev.op = "DirMove"
    /\ hist.mv.failed
    /\ hist.mv.old.parent # hist.mv.dest

\* C17: a Move whose moveEntries succeeded has issued a renameEntry request
\* exactly when the base name of the destination differs from the name the
\* source entry had; a move to another directory under the same name issues
\* no rename, whatever the depth of the file.  (n counts the renameEntry
\* requests of the Move, path is the destination, path2 the source.)
C17_RenameIffBasenameDiffers ==
    (last2.op = "Move" /\ last2.moved) =>
        ((last2.n = 1) <=> (Base(last2.path) # Base(last2.path2)))

\* C18: findEntry of the empty path returns, without error and without a
\* listEntries call, the synthetic root entry, whose id is 0.
C18_EmptyPathIsRoot ==
    (last2.op = "findEntry" /\ last2.path = <<>>) =>
        /\ last2.err = ""
        /\ last2.id = RootEntry.id
        /\ last2.n = 0

\* the rows of the cache for the path and its prefixes are rows of folders
\* the service holds at those paths
RowsAreFolders(path) ==
    \A i \in 1..Len(path) :
        LET k == Prefix(path, i) IN
        k \in DOMAIN dirCache =>
            \E e \in AtPath(remote, k) : e.type = "folder" /\ e.id = dirCache[k].id

\* C19: a findEntry that answers NotFound leaves no row for the path or for a
\* missing prefix of it: whatever rows the path and its prefixes have are
\* folders that exist there.  So a NotFound is never answered for a path
\* that the service holds at that moment, however often NotFound was
\* answered for it before; and the findEntry that Mkdir repeats for a path
\* first answered NotFound and then refused by the service as taken returns
\* the entry that was created meanwhile.
C19_NoNegativeCaching ==
    /\ (hist.ev.op = "findEntry" /\ hist.ev.err = "NotFound") =>
          /\ RowsAreFolders(hist.ev.path)
          /\ AtPath(remote, hist.ev.path) = {}
    /\ \A p \in Procs :
          /\ (At(p, "mkdir", "afterFind") /\ ret[p].err = "NotFound") =>
                /\ Top(p).path \notin DOMAIN dirCache
                /\ RowsAreFolders(Top(p).path)
          /\ (At(p, "mkdir", "afterRefind") /\ failBudget = hist.fail0
                /\ AtPath(remote, Top(p).path) # {}) =>
                /\ ret[p].err = ""
                /\ ret[p].entry \in AtPath(remote, Top(p).path)

\* the findEntry of b that Mkdir repeats returns the entry that another
\* client created after the first one answered NotFound; and a findEntry of
\* b called for itself lists the root and answers NotFound
C19_Witness ==
    \E p \in Procs :
        /\ At(p, "mkdir", "afterRefind")
        /\ Top(p).path = <<"b">>
        /\ ret[p].err = ""
        /\ ret[p].entry.id >= FirstFreeId
        /\ ret[p].entry \in remote

C19_WitnessNotFound ==
    /\ hist.ev.op = "findEntry"
    /\ hist.ev.err = "NotFound"
    /\ hist.ev.n = 1
    /\ hist.ev.path = <<"b">>
    /\ dirCache = EmptyMap

\* the visits of one findEntry call of path, n listEntries calls made so far
VisitsOk(path, visits, n) ==
    /\ \A k \in 1..Len(visits) : visits[k].seg = k
    /\ n = Cardinality({k \in 1..Len(visits) : visits[k].list})
    /\ \A k \in 1..Len(visits) :
          IF visits[k].list
          THEN visits[k].parent = (IF k = 1 THEN 0 ELSE visits[k - 1].id)
          ELSE /\ Prefix(path, k) \in DOMAIN dirCache
               /\ dirCache[Prefix(path, k)].id = visits[k].id

\* C20: in the walk of findEntry every segment is visited once, in order.
\* A segment whose prefix is in the cache is passed without a listEntries
\* call and its cached id becomes the current parent; a segment whose prefix
\* is not in the cache gets exactly one listEntries call, made with the id
\* the previous segment gave as parent (the root for the first segment), and
\* no listEntries call is made for a prefix that is in the cache.
C20_WalkUsesCachedPrefixes ==
    /\ \A p \in Procs :
          (stack[p] # <<>> /\ Top(p).fn = "findEntry" /\ Top(p).pc # "check") =>
              LET f == Top(p) IN
              /\ VisitsOk(f.path, f.ents, f.n)
              /\ f.pc = "walk" =>
                    /\ Len(f.ents) = f.i - 1
                    /\ f.i > 1 => f.cur = f.ents[f.i - 1].id
              /\ f.pc = "list" =>
                    /\ Len(f.ents) = f.i - 1
                    /\ Prefix(f.path, f.i) \notin DOMAIN dirCache
              /\ f.pc = "add" =>
                    /\ Len(f.ents) = f.i
                    /\ f.ents[f.i].list
                    /\ Prefix(f.path, f.i) \notin DOMAIN dirCache
    /\ hist.ev.op = "findEntry" => VisitsOk(hist.ev.path, hist.ev.ents, hist.ev.n)

\* findEntry of a/x has returned x after it passed a by its cache row and
\* made its one listEntries call for x, with a's id as parent
C20_Witness ==
    /\ hist.ev.op = "findEntry"
    /\ hist.ev.path = <<"a", "x">>
    /\ hist.ev.err = ""
    /\ hist.ev.n = 1
    /\ Len(hist.ev.ents) = 2
    /\ ~hist.ev.ents[1].list
    /\ hist.ev.ents[2].list
    /\ hist.ev.ents[2].parent = dirCache[<<"a">>].id

C21_WitnessCreate ==
    \E p, q \in Procs :
        /\ p # q
        /\ InRemoteCall(p)
        /\ Top(p).pc = "L367call"
        /\ q \in dirCacheMu.r

\* C22: a List whose findEntry of the directory failed returns DirNotFound
\* when that error was NotFound and otherwise returns that same error.
\* (cause is the error findEntry returned to List.)
C22_ListPropagatesResolverError ==
    (hist.ev.op = "List" /\ hist.ev.cause # "") =>
        hist.ev.err = (IF hist.ev.cause = "NotFound" THEN "DirNotFound" ELSE hist.ev.cause)

\* the folders among the entries a List returned
ListedFolders(ents) == {ents[k] : k \in {j \in 1..Len(ents) : ents[j].type = "folder"}}

\* C23: right after a successful List of a directory, every folder the
\* listing returned has a cache row under the directory's path joined with
\* its name, holding the listed id, and findEntry of that path returns that
\* id without a listEntries call.
C23_ListCachesFolderChildren ==
    ReturnedOk("List") =>
        \A e \in ListedFolders(hist.ev.ents) :
            LET childPath == Join(hist.ev.path, <<e.name>>)
                r == findEntry(dirCache, remote, childPath)
            IN /\ childPath \in DOMAIN dirCache
               /\ dirCache[childPath].id = e.id
               /\ r.err = "" /\ r.entry.id = e.id /\ r.lists = 0

\* a List of the root returned folder a, not cached before
C23_Witness ==
    /\ ReturnedOk("List")
    /\ hist.ev.path = <<>>
    /\ \E e \in ListedFolders(hist.ev.ents) : e.name = "a"
    /\ DOMAIN dirCache = {<<"a">>}

\* The same for the two-table version: the row of pathCache and the entry of
\* entryCache.
C23_ListCachesFolderChildren2 ==
    Returned2Ok("List") =>
        \A e \in ListedFolders(last2.ents) :
            LET childPath == Join(last2.path, <<e.name>>)
                r == findEntry2(pathCache, entryCache, remote, childPath)
            IN /\ childPath \in DOMAIN pathCache
               /\ pathCache[childPath] = e.id
               /\ r.err = "" /\ r.entry.id = e.id /\ r.lists = 0

\* the id of the entry of that name that no entry of that name precedes in
\* the listing (-1 when the listing has none)
FirstMatchId(ents, part) ==
    LET js == {j \in 1..Len(ents) :
                  ents[j].name = part /\ \A i \in 1..(j - 1) : ents[i].name # part}
    IN IF js = {} THEN -1 ELSE ents[CHOOSE j \in js : TRUE].id

\* how many entries of that name the listing holds
Matches(ents, part) == Cardinality({j \in 1..Len(ents) : ents[j].name = part})

\* the id reached from the account root by taking, for every segment, the
\* first entry of its name in the listing of the id reached so far
RECURSIVE FirstMatchChain(_, _, _, _)
FirstMatchChain(rem, path, i, cur) ==
    IF i > Len(path) THEN cur
    ELSE LET id == FirstMatchId(ListEntries(rem, cur), path[i])
         IN IF id = -1 THEN -1 ELSE FirstMatchChain(rem, path, i + 1, id)

\* C24: for every segment that a findEntry resolved by a listing, the id it
\* went on with is the id of the first entry of the segment's name in that
\* listing; and the entry a findEntry returns, in either version, is the
\* one reached by first matches from the root.
C24_FirstMatchWins ==
    /\ hist.ev.op = "findEntry" =>
          /\ \A k \in 1..Len(hist.ev.ents) :
                LET v == hist.ev.ents[k] IN
                (v.list /\ v.id # -1) =>
                    v.id = FirstMatchId(ListEntries(remote, v.parent), hist.ev.path[k])
          /\ hist.ev.err = "" =>
                hist.ev.id = FirstMatchChain(remote, hist.ev.path, 1, 0)
    /\ (last2.op = "findEntry" /\ last2.err = "") =>
          last2.id = FirstMatchChain(remote, last2.path, 1, 0)

\* findEntry of a/x returned after both of its listings held two entries of
\* the segment's name
C24_Witness ==
    /\ hist.ev.op = "findEntry"
    /\ hist.ev.err = ""
    /\ hist.ev.path = <<"a", "x">>
    /\ Len(hist.ev.ents) = 2
    /\ \A k \in 1..2 :
          /\ hist.ev.ents[k].list
          /\ Matches(ListEntries(remote, hist.ev.ents[k].parent), hist.ev.path[k]) = 2

\* the same for the two-table version, for b/a
C24_Witness2 ==
    /\ last2.op = "findEntry"
    /\ last2.err = ""
    /\ last2.path = <<"b", "a">>
    /\ last2.n = 2
    /\ Matches(ListEntries(remote, 0), "b") = 2

\* the example of the specification: "api/v1/file-entries/42", with f for
\* the part after "api/"
ApiLocator == <<"api", "/", "f">>

\* C25: the URL download requests is the entry's URL itself when that
\* begins with "http://" or "https://"; otherwise, with one leading "/"
\* taken off, it is the service host followed by the URL when the URL begins
\* with "api/" (the API prefix is not put twice), and the API base, "/" and
\* the URL when it does not.
C25_DownloadUrlNormalized ==
    dl.state = "requested" =>
        LET u == IF dl.url # <<>> /\ Head(dl.url) = "/" THEN Tail(dl.url) ELSE dl.url IN
        /\ (HasPrefix(dl.url, HttpPrefix) \/ HasPrefix(dl.url, HttpsPrefix)) => dl.out = dl.url
        /\ (~HasPrefix(dl.url, HttpPrefix) /\ ~HasPrefix(dl.url, HttpsPrefix)) =>
              /\ HasPrefix(u, ApiPrefix) => dl.out = HostURL \o u
              /\ ~HasPrefix(u, ApiPrefix) => dl.out = apiBaseURL \o <<"/">> \o u
        /\ dl.url = ApiLocator =>
              dl.out = <<"http", "s", ":", "/", "/", "app.drime.cloud", "/", "api", "/", "f">>

\* the URL "/api/f" has been normalized
C25_Witness ==
    /\ dl.state = "requested"
    /\ dl.url = <<"/">> \o ApiLocator
    /\ dl.out = HostURL \o ApiLocator

\* an "https://" URL has been left as it is
C25_WitnessAbsolute ==
    /\ dl.state = "requested"
    /\ dl.url = HttpsPrefix \o <<"f">>
    /\ dl.out = dl.url

\* C26: a Mkdir calls createFolder only when findEntry of the path answered
\* NotFound: when the path resolved it returns success without a
\* createFolder call, and when findEntry failed with another error it
\* returns that error without a createFolder call.  (cause is the error of
\* the findEntry of the path, n the number of createFolder calls.)
C26_CreateOnlyAfterNotFound ==
    last2.op = "Mkdir" =>
        /\ last2.cause = "" => (last2.err = "" /\ last2.n = 0)
        /\ last2.cause \notin {"", "NotFound"} => (last2.err = last2.cause /\ last2.n = 0)

\* the caller is at the gate of a path whose Once it is itself executing:
\* further down its own stack is the Mkdir of that path, waiting for the body
Reentered(p) ==
    /\ At(p, "Mkdir", "gate")
    /\ \E k \in 2..Len(stack[p]) :
          /\ stack[p][k].fn = "Mkdir"
          /\ stack[p][k].pc = "unlock"
          /\ stack[p][k].path = Top(p).path

\* C27: no caller of Mkdir arrives, through the recursive creation of the
\* parent, at the gate of a path whose Once it is executing itself (where it
\* would wait for its own return and never return).
C27_GateNeverReentered == \A p \in Procs : ~Reentered(p)

\* C28: whenever a Mkdir returns success, a folder is at its path on the
\* remote at that moment.
C28_MkdirSuccessMeansFolderExists ==
    ReturnedOk("Mkdir") => FoldersAtPath # {}

\* the Mkdir of b returned success after b was made by Mkdir and then removed
\* (by Rmdir or Purge), with no remote call failing
C28_RemovedThenMkdirOk ==
    /\ ReturnedOk("Mkdir")
    /\ hist.ev.path = <<"b">>
    /\ <<"b">> \in DOMAIN hist.created
    /\ FoldersAtPath = {}
    /\ failBudget = MaxFail

\* C29: when a Mkdir returns success, the entry at its path is a folder:
\* it does not return success for a path at which a file is.
C29_MkdirSuccessOnlyForFolder ==
    ReturnedOk("Mkdir") => \A e \in AtPath(remote, hist.ev.path) : e.type = "folder"

\* every segment of the path was in the account from the start (and nothing
\* is ever removed while callers only resolve and create)
ExistsThroughout(path) ==
    \A i \in 1..Len(path) : AtPath(InitRemote, Prefix(path, i)) # {}

\* C30: a findEntry of a path whose every segment exists remotely throughout
\* does not answer NotFound, whatever other callers do to the cache meanwhile.
C30_NotFoundOnlyIfAbsent ==
    (hist.ev.op = "findEntry" /\ ExistsThroughout(hist.ev.path)) => hist.ev.err # "NotFound"
---------------------------------------------------------------------------
(* Rmdir beside concurrent findEntry and List of the dirCache version *)

\* the account: besides a and a/x, the empty folder b
RmRemote == InitRemote \cup {[id |-> 3, name |-> "b", type |-> "folder", parent |-> 0]}

InitRm ==
    /\ remote = RmRemote
    /\ nextId = Cardinality(RmRemote) + 1
    /\ failBudget = MaxFail
    /\ root = <<>>
    /\ dirCache = EmptyMap
    /\ mkdirCache = EmptyMap
    /\ stack = [p \in Procs |-> <<>>]
    /\ ret = [p \in Procs |-> Result("", NoEntry)]
    /\ hist = NoHist
    /\ InitV2
    /\ others = 0
    /\ dirCacheMu = NoLocks
    /\ dl = DlIdle
    /\ pacer = PacerIdle
    /\ opsLeft \in {f \in [Procs -> 0..MaxOps] : Total(f, NProcs) = MaxOps}

NextRm ==
    \E p \in Procs :
        \/ StartRmdir(p) \/ StartFind(p) \/ StartList(p)
        \/ FindSteps(p)
        \/ RdAfterFind(p) \/ RdList(p) \/ RdDelete(p) \/ RdClear(p)
        \/ LsAfterFind(p) \/ LsList(p) \/ LsCache(p)

SpecRm == InitRm /\ [][NextRm]_vars

\* the folders of the starting account that a Rmdir has deleted (in this
\* specification nothing else deletes, and a Rmdir that deleted returns success)
Removed == {e \in RmRemote : e \notin remote}

\* C31: once a Rmdir has succeeded and every operation that ran beside it
\* has returned, the cache holds no row for the removed path.
C31_NoRowAfterRmdir ==
    AllReturned => \A e \in Removed : PathOf(RmRemote, e) \notin DOMAIN dirCache
---------------------------------------------------------------------------
(* Callers of Mkdir for children of one missing parent, root "" *)

\* the dir arguments: two children of b, which the account does not hold
SibDirs == {<<"b", "a">>, <<"b", "c">>}

StartMkdirSib(p) ==
    /\ Idle(p)
    /\ \E dir \in SibDirs : Begin(p, <<Frame("Mkdir", "gate", Join(root, dir))>>)

\* each caller makes one call
InitSib ==
    /\ InitFs
    /\ InitV2
    /\ others = 0
    /\ dirCacheMu = NoLocks
    /\ dl = DlIdle
    /\ pacer = PacerIdle
    /\ opsLeft = [p \in Procs |-> 1]

NextSib ==
    \E p \in Procs : StartMkdirSib(p) \/ MkdirSteps(p) \/ FindSteps(p)

SpecSib == InitSib /\ [][NextSib]_vars

\* every caller has called and returned, both children were asked for, and
\* no remote request failed
SibsDone ==
    /\ AllReturned
    /\ \A p \in Procs : opsLeft[p] = 0
    /\ \A d \in SibDirs : \E r \in hist.gate : r.path = d
    /\ failBudget = MaxFail

\* C32: callers making b/a and b/c at once, b missing: createFolder is called
\* once for b and once for each child, the account holds one b and one of
\* each child under b's id, and every call returned success.
C32_SiblingsShareOneParent ==
    SibsDone =>
        /\ Get(hist.creates, <<"b">>, 0) = 1
        /\ Cardinality(AtPath(remote, <<"b">>)) = 1
        /\ \A d \in SibDirs :
              /\ Get(hist.creates, d, 0) = 1
              /\ Cardinality({e \in remote : e.name = Base(d) /\ e.type = "folder"
                                             /\ e.parent # 0}) = 1
              /\ \E e \in remote, b \in AtPath(remote, <<"b">>) :
                    e.name = Base(d) /\ e.type = "folder" /\ e.parent = b.id
        /\ Cardinality({e \in remote : e \notin InitRemote}) = 1 + Cardinality(SibDirs)
        /\ \A r \in hist.gate : r.ok

\* C32 witness: the siblings are made, one caller ran the body of b while
\* another went through b's gate without running it
C32_Witness ==
    /\ SibsDone
    /\ \E r1, r2 \in hist.gate : r1.path = <<"b">> /\ r2.path = <<"b">> /\ r1.exec /\ ~r2.exec
    /\ \A d \in SibDirs : AtPath(remote, d) # {}
---------------------------------------------------------------------------
(* listEntries against a service whose current_page is not the page asked
   for: api.go 144-182, part_000 144-183 *)

\* One round of the loop when the response carries any current_page (0: the
\* field is missing from the JSON) beside the listing's constant last_page.
\* The rounds are followed up to one request past the longest listing.
ListPageAny ==
    /\ lister.state = "busy"
    /\ Len(lister.reqs) <= MaxPages
    /\ \E cp \in 0..MaxPages :
         LET resp == [PageResponse(lister.sizes, lister.page) EXCEPT !.currentPage = cp]
             stop == IF lister.ver = "api"
                     THEN LastPageReached(lister.page, resp)
                     ELSE LastPageReached0(lister.page, resp)
         IN lister' = [lister EXCEPT
                         !.reqs = Append(@, lister.page),
                         !.allEntries = @ \o resp.data,
                         !.state = IF stop THEN "done" ELSE "busy",
                         !.page = IF stop THEN @ ELSE @ + 1]
    /\ UNCHANGED <<fsVars, v2Vars, pacer, others, dirCacheMu, dl>>

NextListAny == ListStart \/ ListPageAny \/ ListPageFails

SpecListAny == InitRetry /\ [][NextListAny]_vars

\* C33: whatever current_page the responses carry, listEntries makes at most
\* last_page page requests.
C33_AtMostLastPageRequests ==
    lister.state # "idle" => Len(lister.reqs) <= Len(lister.sizes)

\* the loop of part_000, which tests its own page counter, keeps to the bound
C33_Part000AtMostLastPageRequests ==
    (lister.state # "idle" /\ lister.ver = "part_000") => Len(lister.reqs) <= Len(lister.sizes)
---------------------------------------------------------------------------
(* findEntry of paths that run through the file a/x *)

ThruPaths == {<<"a", "x", "y">>, <<"a", "x">>}

StartFindThru(p) ==
    /\ Idle(p)
    /\ \E path \in ThruPaths : Begin(p, <<FindFrame(path)>>)

NextThru ==
    \E p \in Procs : StartFindThru(p) \/ StartFind(p) \/ FindSteps(p)

SpecThru == InitConc /\ [][NextThru]_vars

\* the ids of the account's files
FileIds == {e.id : e \in {x \in remote : x.type = "file"}}

\* C34: findEntry never takes a file's id as the current parent and never
\* calls listEntries with a file's id as parent.
C34_DescendsOnlyThroughFolders ==
    /\ \A p \in Procs :
          (stack[p] # <<>> /\ Top(p).fn = "findEntry") =>
              /\ Top(p).cur \notin FileIds
              /\ \A k \in 1..Len(Top(p).ents) :
                    Top(p).ents[k].list => Top(p).ents[k].parent \notin FileIds
    /\ hist.ev.op = "findEntry" =>
          \A k \in 1..Len(hist.ev.ents) :
              hist.ev.ents[k].list => hist.ev.ents[k].parent \notin FileIds

\* a findEntry has returned after listing the "children" of a file
C34_ListedUnderFile ==
    /\ hist.ev.op = "findEntry"
    /\ \E k \in 1..Len(hist.ev.ents) : hist.ev.ents[k].list /\ hist.ev.ents[k].parent \in FileIds

\* C35: every row of dirCache holds an entry of kind folder.
C35_CacheHoldsOnlyFolders ==
    \A k \in DOMAIN dirCache : dirCache[k].type = "folder"

\* C35 witness: a Mkdir has just returned success where its path resolves to
\* a file (the entry mkdir handed to addDirCacheEntry after the failed
\* createFolder), and the cache has no row for it
C35_Witness ==
    /\ hist.ev.op = "Mkdir" /\ hist.ev.err = ""
    /\ \E e \in AtPath(remote, hist.ev.path) : e.type = "file"
    /\ hist.ev.path \notin DOMAIN dirCache

\* C35 witness: rows were written by findEntry and by mkdir's own store
C35_WitnessRows ==
    /\ AllReturned
    /\ <<"a">> \in DOMAIN dirCache
    /\ \E path \in DOMAIN hist.created : path \in DOMAIN dirCache
---------------------------------------------------------------------------
(* NewFs: the check of the root, drime.go 153-167 and 705-719 *)

\* path.Dir of a clean relative path without a slash
Dot == <<".">>

\* path.Dir of a non-empty clean relative path
pathDir(p) == IF Len(p) <= 1 THEN Dot ELSE SubSeq(p, 1, Len(p) - 1)

\* lines 158-162, mutated: the "." of path.Dir is kept
newRootDot(rt) == pathDir(rt)

\* lines 158-162: newRoot := path.Dir(f.root); if newRoot == "." { newRoot = "" }
newRootOf(rt) == IF pathDir(rt) = Dot THEN <<>> ELSE pathDir(rt)

\* the roots given to NewFs (trimmed of slashes, not empty)
NewFsRoots == {<<"a">>, <<"a", "x">>, <<"x">>, <<"b">>, <<"a", "x", "y">>, <<"a", "y">>}

\* the accounts: a and a/x, with or without a file x at the top level
NewFsRemotes ==
    {InitRemote,
     InitRemote \cup {[id |-> 3, name |-> "x", type |-> "file", parent |-> 0]}}

\* NewFs of the dirCache version, line 154: findEntry(ctx, f.root)
StartNewFs(p) ==
    /\ Idle(p)
    /\ Begin(p, <<FindFrame(root), Frame("NewFs", "afterFind", root)>>)

\* lines 155-166: a root that resolved to a non-folder is replaced by its
\* parent and ErrorIsFile is returned; otherwise f, nil
NfAfterFind(p) ==
    /\ At(p, "NewFs", "afterFind")
    /\ LET f == [Top(p) EXCEPT !.err = ret[p].err] IN
         IF ret[p].err = "" /\ ret[p].entry.type # "folder"
         THEN /\ root' = newRootOf(root)
              /\ ReturnF(p, Result("IsFile", ret[p].entry), f, hist)
         ELSE /\ root' = root
              /\ ReturnF(p, Result("", ret[p].entry), f, hist)
    /\ UNCHANGED <<remote, nextId, failBudget, dirCache, mkdirCache, opsLeft, v2Vars, pacer, lister, others, dirCacheMu, dl>>

\* NewFs of the two-table version, lines 705-719
NewFs2 ==
    /\ Idle2
    /\ stack[1] = <<>>
    /\ \E fail \in BOOLEAN :
         LET r0 == findEntry2(pathCache, entryCache, remote, root)
             r == IF fail
                  THEN [err |-> "ListFailed", entry |-> NoEntry, pc |-> pathCache,
                        ec |-> entryCache, lists |-> 1]
                  ELSE r0
             isFile == r.err = "" /\ r.entry.type # "folder"
             ev == [Ev2("NewFs", root, <<>>, IF isFile THEN "IsFile" ELSE "", r.entry.id)
                      EXCEPT !.cause = r.err]
         IN /\ fail => r0.lists > 0
            /\ IF fail THEN Fails ELSE UNCHANGED failBudget
            /\ root' = IF isFile THEN newRootOf(root) ELSE root
            /\ last2' = ev
            /\ pathCache' = r.pc
            /\ entryCache' = r.ec
    /\ opsLeft' = [opsLeft EXCEPT ![1] = @ - 1]
    /\ UNCHANGED <<remote, nextId, dirCache, mkdirCache, stack, ret, hist, pacer, lister, others, dirCacheMu, dl>>

\* one NewFs call of either version on a fresh Fs
InitNewFs ==
    /\ remote \in NewFsRemotes
    /\ nextId = Cardinality(remote) + 1
    /\ failBudget = MaxFail
    /\ root \in NewFsRoots
    /\ dirCache = EmptyMap
    /\ mkdirCache = EmptyMap
    /\ stack = [p \in Procs |-> <<>>]
    /\ ret = [p \in Procs |-> Result("", NoEntry)]
    /\ hist = NoHist
    /\ InitV2
    /\ others = 0
    /\ dirCacheMu = NoLocks
    /\ dl = DlIdle
    /\ pacer = PacerIdle
    /\ opsLeft = [p \in Procs |-> IF p = 1 THEN 1 ELSE 0]

NextNewFs ==
    \/ \E p \in Procs : StartNewFs(p) \/ FindSteps(p) \/ NfAfterFind(p)
    \/ NewFs2

SpecNewFs == InitNewFs /\ [][NextNewFs]_vars

\* what a returned NewFs must have done, the root it was given being ev.path
NewFsRight(ev) ==
    LET given == ev.path
        files == {e \in AtPath(remote, given) : e.type # "folder"}
    IN /\ ev.err \in {"", "IsFile"}
       /\ ev.err = "IsFile" => (files # {} /\ root = Dir(given))
       /\ ev.err = "" => (root = given /\ (files = {} \/ ev.cause # ""))

\* C36: NewFs with a non-empty root returns ErrorIsFile and a Fs rooted at the
\* parent of the root (the empty root for a top-level file) when the root
\* resolves to a non-folder; when it resolves to a folder or does not resolve
\* it returns no error and keeps the root as given.
C36_NewFsRootOfFile ==
    /\ hist.ev.op = "NewFs" => NewFsRight(hist.ev)
    /\ last2.op = "NewFs" => NewFsRight(last2)

\* C36 witness: the root was the top-level file x; ErrorIsFile and the empty root
C36_Witness ==
    /\ hist.ev.op = "NewFs" /\ hist.ev.path = <<"x">> /\ hist.ev.err = "IsFile"
    /\ root = <<>>

\* C36 witnesses: a file below a folder, in the two-table version; a root that
\* does not resolve because its listing failed
C36_WitnessNested ==
    /\ last2.op = "NewFs" /\ last2.path = <<"a", "x">> /\ last2.err = "IsFile"
    /\ root = <<"a">>
C36_WitnessUnresolved ==
    /\ hist.ev.op = "NewFs" /\ hist.ev.cause = "ListFailed" /\ hist.ev.err = ""
    /\ root = hist.ev.path

=============================================================================
